---- MODULE Spec2Model ----
(***************************************************************************)
(* Driver of two AD9833 DDS chips (software-SPI variant,                   *)
(* AD9833_Soft_MSPM0.c).  The state is the two shadow control registers of *)
(* the driver, the control register each chip last received, and the words *)
(* the last public operation put on the bus.                               *)
(***************************************************************************)
EXTENDS Integers, Naturals, Sequences, FiniteSets, TLC

VARIABLES
    s_control_reg_cs1,   \* shadow control register of chip 1
    s_control_reg_cs2,   \* shadow control register of chip 2
    chip_ctrl1,          \* control register chip 1 last received (NoWord: none)
    chip_ctrl2,          \* control register chip 2 last received (NoWord: none)
    trace,               \* transmissions of the last public operation
    op,                  \* name of the last public operation
    arg,                 \* its arguments
    nOps                 \* number of public operations issued so far

vars == <<s_control_reg_cs1, s_control_reg_cs2, chip_ctrl1, chip_ctrl2,
          trace, op, arg, nOps>>

----------------------------------------------------------------------------
(* Bounds of the model *)

\* public operations in a run
MaxOps == 2
\* FreqsWide holds every whole frequency from 0 to MaxLowHz
MaxLowHz == 40
\* FreqsWide holds the multiples of 390625 Hz up to MaxGrid * 390625
MaxGrid == 34
\* the phases of the conversion checks go up to 15 * MaxPhaseSteps degrees either way
MaxPhaseSteps == 48

----------------------------------------------------------------------------
(* Control register bits and command prefixes *)

AD9833_CTRL_B28 == 8192
AD9833_CTRL_HLB == 4096
AD9833_CTRL_FSELECT == 2048
AD9833_CTRL_PSELECT == 1024
AD9833_CTRL_RESET == 256
AD9833_CTRL_SLEEP1 == 128
AD9833_CTRL_SLEEP12 == 64
AD9833_CTRL_OPBITEN == 32
AD9833_CTRL_DIV2 == 8
AD9833_CTRL_MODE == 2

AD9833_CMD_CTRLREG == 0
AD9833_CMD_FREQ0REG == 16384
AD9833_CMD_FREQ1REG == 32768
AD9833_CMD_PHASE0REG == 49152
AD9833_CMD_PHASE1REG == 57344

(* enum workStatus *)
CS1_SINGLE == 0
CS2_SINGLE == 1
CS1_CS2_DOUBLE == 2

(* enum chipChose *)
CS1 == 1
CS2 == 2
CS_BOTH == 3

(* enum waveType *)
SINE_WAVE == 1
TRIANGLE_WAVE == 2
SQUARE_WAVE == 3

----------------------------------------------------------------------------
(* C integer operators on unsigned values *)

RECURSIVE And1(_, _)
And1(a, b) ==
    IF a = 0 \/ b = 0 THEN 0
    ELSE (a % 2) * (b % 2) + 2 * And1(a \div 2, b \div 2)

\* a & b and a | b of two 4-bit values, tabulated
And4 == [a \in 0..15 |-> [b \in 0..15 |-> And1(a, b)]]
Or4 == [a \in 0..15 |-> [b \in 0..15 |-> a + b - And1(a, b)]]

\* a & b
RECURSIVE BitAnd(_, _)
BitAnd(a, b) ==
    IF a = 0 \/ b = 0 THEN 0
    ELSE And4[a % 16][b % 16] + 16 * BitAnd(a \div 16, b \div 16)

\* a | b
RECURSIVE BitOr(_, _)
BitOr(a, b) ==
    IF a = 0 THEN b
    ELSE IF b = 0 THEN a
    ELSE Or4[a % 16][b % 16] + 16 * BitOr(a \div 16, b \div 16)

\* x & ~mask on a uint16_t
BitClear(x, mask) == x - BitAnd(x, mask)

HasBit(x, mask) == BitAnd(x, mask) # 0

----------------------------------------------------------------------------
(* The machine: driver shadows, chips, bus trace *)

NoWord == -1

\* D15 = 0, D14 = 0 addresses the control register of the chip
IsCtrlWord(w) == w \div 16384 = 0

ShadowInit == BitOr(BitOr(AD9833_CMD_CTRLREG, AD9833_CTRL_B28), AD9833_CTRL_RESET)

Machine(cs1, cs2, c1, c2) ==
    [cs1 |-> cs1, cs2 |-> cs2, chip1 |-> c1, chip2 |-> c2, tr |-> <<>>]

\* One 16-bit frame clocked out with the chip selects in `chips' low.
Transmit(m, chips, choice, TxData) ==
    [m EXCEPT
        !.chip1 = IF 1 \in chips /\ IsCtrlWord(TxData) THEN TxData ELSE @,
        !.chip2 = IF 2 \in chips /\ IsCtrlWord(TxData) THEN TxData ELSE @,
        !.tr = Append(@, [target |-> choice, word |-> TxData,
                          sh1 |-> m.cs1, sh2 |-> m.cs2])]

\* variant: any other choice is taken as chip 1
AD9833_Write_ElseCS1(m, choice, TxData) ==
    IF choice = CS2 THEN Transmit(m, {2}, choice, TxData)
    ELSE IF choice = CS_BOTH THEN Transmit(m, {1, 2}, choice, TxData)
    ELSE Transmit(m, {1}, choice, TxData)

AD9833_Write(m, choice, TxData) ==
    IF choice = CS1 THEN Transmit(m, {1}, choice, TxData)
    ELSE IF choice = CS2 THEN Transmit(m, {2}, choice, TxData)
    ELSE IF choice = CS_BOTH THEN Transmit(m, {1, 2}, choice, TxData)
    ELSE m

\* "cs1" / "cs2": the register pointed to; "NULL": invalid choice
AD9833_GetShadowCtrlReg(choice) ==
    IF choice = CS1 THEN "cs1"
    ELSE IF choice = CS2 THEN "cs2"
    ELSE "NULL"

\* *pCtrlReg
Deref(m, p) == IF p = "cs1" THEN m.cs1 ELSE m.cs2

\* *pCtrlReg = v
Store(m, p, v) == IF p = "cs1" THEN [m EXCEPT !.cs1 = v] ELSE [m EXCEPT !.cs2 = v]

\* variant: the shadows are not set back to B28 | RESET first
AD9833_Init_KeepShadow(m, status) ==
    LET r1 == IF status = CS1_SINGLE THEN m.cs1
              ELSE IF status = CS2_SINGLE THEN BitOr(m.cs1, AD9833_CTRL_SLEEP12)
              ELSE IF status = CS1_CS2_DOUBLE THEN m.cs1
              ELSE BitOr(m.cs1, BitOr(AD9833_CTRL_SLEEP1, AD9833_CTRL_SLEEP12))
        r2 == IF status = CS1_SINGLE THEN BitOr(m.cs2, AD9833_CTRL_SLEEP12)
              ELSE IF status = CS2_SINGLE THEN m.cs2
              ELSE IF status = CS1_CS2_DOUBLE THEN m.cs2
              ELSE BitOr(m.cs2, BitOr(AD9833_CTRL_SLEEP1, AD9833_CTRL_SLEEP12))
        m1 == [m EXCEPT !.cs1 = r1, !.cs2 = r2]
        m2 == AD9833_Write(m1, CS1, m1.cs1)
    IN  AD9833_Write(m2, CS2, m2.cs2)

\* variant: the default case of the switch sets no sleep bit
AD9833_Init_DefaultAwake(m, status) ==
    LET d == ShadowInit
        r1 == IF status = CS2_SINGLE THEN BitOr(d, AD9833_CTRL_SLEEP12) ELSE d
        r2 == IF status = CS1_SINGLE THEN BitOr(d, AD9833_CTRL_SLEEP12) ELSE d
        m1 == [m EXCEPT !.cs1 = r1, !.cs2 = r2]
        m2 == AD9833_Write(m1, CS1, m1.cs1)
    IN  AD9833_Write(m2, CS2, m2.cs2)

\* AD9833_Init that writes to chip 1 before it sets the shadow of chip 2
AD9833_Init_WriteBetween(m, status) ==
    LET d == ShadowInit
        r1 == IF status = CS1_SINGLE THEN d
              ELSE IF status = CS2_SINGLE THEN BitOr(d, AD9833_CTRL_SLEEP12)
              ELSE IF status = CS1_CS2_DOUBLE THEN d
              ELSE BitOr(d, BitOr(AD9833_CTRL_SLEEP1, AD9833_CTRL_SLEEP12))
        r2 == IF status = CS1_SINGLE THEN BitOr(d, AD9833_CTRL_SLEEP12)
              ELSE IF status = CS2_SINGLE THEN d
              ELSE IF status = CS1_CS2_DOUBLE THEN d
              ELSE BitOr(d, BitOr(AD9833_CTRL_SLEEP1, AD9833_CTRL_SLEEP12))
        m1 == [m EXCEPT !.cs1 = r1]
        m2 == AD9833_Write(m1, CS1, m1.cs1)
        m3 == [m2 EXCEPT !.cs2 = r2]
    IN  AD9833_Write(m3, CS2, m3.cs2)

\* AD9833_Init that sets its bits in the shadows as it finds them
AD9833_Init_OrsIn(m, status) ==
    LET r1 == IF status = CS1_SINGLE THEN BitOr(m.cs1, ShadowInit)
              ELSE IF status = CS2_SINGLE
                   THEN BitOr(m.cs1, BitOr(ShadowInit, AD9833_CTRL_SLEEP12))
              ELSE IF status = CS1_CS2_DOUBLE THEN BitOr(m.cs1, ShadowInit)
              ELSE BitOr(m.cs1, BitOr(ShadowInit,
                                      BitOr(AD9833_CTRL_SLEEP1, AD9833_CTRL_SLEEP12)))
        r2 == IF status = CS1_SINGLE
              THEN BitOr(m.cs2, BitOr(ShadowInit, AD9833_CTRL_SLEEP12))
              ELSE IF status = CS2_SINGLE THEN BitOr(m.cs2, ShadowInit)
              ELSE IF status = CS1_CS2_DOUBLE THEN BitOr(m.cs2, ShadowInit)
              ELSE BitOr(m.cs2, BitOr(ShadowInit,
                                      BitOr(AD9833_CTRL_SLEEP1, AD9833_CTRL_SLEEP12)))
        m1 == [m EXCEPT !.cs1 = r1, !.cs2 = r2]
        m2 == AD9833_Write(m1, CS1, m1.cs1)
    IN  AD9833_Write(m2, CS2, m2.cs2)

AD9833_Init(m, status) ==
    LET d == ShadowInit
        r1 == IF status = CS1_SINGLE THEN d
              ELSE IF status = CS2_SINGLE THEN BitOr(d, AD9833_CTRL_SLEEP12)
              ELSE IF status = CS1_CS2_DOUBLE THEN d
              ELSE BitOr(d, BitOr(AD9833_CTRL_SLEEP1, AD9833_CTRL_SLEEP12))
        r2 == IF status = CS1_SINGLE THEN BitOr(d, AD9833_CTRL_SLEEP12)
              ELSE IF status = CS2_SINGLE THEN d
              ELSE IF status = CS1_CS2_DOUBLE THEN d
              ELSE BitOr(d, BitOr(AD9833_CTRL_SLEEP1, AD9833_CTRL_SLEEP12))
        m1 == [m EXCEPT !.cs1 = r1, !.cs2 = r2]
        m2 == AD9833_Write(m1, CS1, m1.cs1)
    IN  AD9833_Write(m2, CS2, m2.cs2)

\* variant: the waveform bits are not cleared before the new ones are set
AD9833_SetWaveformAndStart_NoClear(m, choice, wave) ==
    LET p == AD9833_GetShadowCtrlReg(choice) IN
    IF p = "NULL" THEN m
    ELSE
        LET c0 == Deref(m, p)
            c1 == IF wave = SINE_WAVE THEN c0
                  ELSE IF wave = TRIANGLE_WAVE THEN BitOr(c0, AD9833_CTRL_MODE)
                  ELSE IF wave = SQUARE_WAVE
                       THEN BitOr(BitOr(c0, AD9833_CTRL_OPBITEN), AD9833_CTRL_DIV2)
                  ELSE c0
            c2 == BitClear(c1, AD9833_CTRL_RESET)
            m1 == Store(m, p, c2)
        IN  AD9833_Write(m1, choice, Deref(m1, p))

\* AD9833_SetWaveformAndStart that builds the control word anew, from B28
\* and the waveform bits, instead of changing the shadow
AD9833_SetWaveformAndStart_Anew(m, choice, wave) ==
    LET p == AD9833_GetShadowCtrlReg(choice) IN
    IF p = "NULL" THEN m
    ELSE
        LET c0 == BitOr(AD9833_CMD_CTRLREG, AD9833_CTRL_B28)
            c1 == IF wave = TRIANGLE_WAVE THEN BitOr(c0, AD9833_CTRL_MODE)
                  ELSE IF wave = SQUARE_WAVE
                       THEN BitOr(BitOr(c0, AD9833_CTRL_OPBITEN), AD9833_CTRL_DIV2)
                  ELSE c0
            m1 == Store(m, p, c1)
        IN  AD9833_Write(m1, choice, Deref(m1, p))

\* AD9833_SetWaveformAndStart that clears OPBITEN and DIV2 only and leaves MODE
AD9833_SetWaveformAndStart_KeepsMode(m, choice, wave) ==
    LET p == AD9833_GetShadowCtrlReg(choice) IN
    IF p = "NULL" THEN m
    ELSE
        LET c0 == BitClear(Deref(m, p), BitOr(AD9833_CTRL_OPBITEN, AD9833_CTRL_DIV2))
            c1 == IF wave = SINE_WAVE THEN c0
                  ELSE IF wave = TRIANGLE_WAVE THEN BitOr(c0, AD9833_CTRL_MODE)
                  ELSE IF wave = SQUARE_WAVE
                       THEN BitOr(BitOr(c0, AD9833_CTRL_OPBITEN), AD9833_CTRL_DIV2)
                  ELSE c0
            c2 == BitClear(c1, AD9833_CTRL_RESET)
            m1 == Store(m, p, c2)
        IN  AD9833_Write(m1, choice, Deref(m1, p))

AD9833_SetWaveformAndStart(m, choice, wave) ==
    LET p == AD9833_GetShadowCtrlReg(choice) IN
    IF p = "NULL" THEN m
    ELSE
        LET c0 == BitClear(Deref(m, p),
                      BitOr(AD9833_CTRL_MODE, BitOr(AD9833_CTRL_OPBITEN, AD9833_CTRL_DIV2)))
            c1 == IF wave = SINE_WAVE THEN c0
                  ELSE IF wave = TRIANGLE_WAVE THEN BitOr(c0, AD9833_CTRL_MODE)
                  ELSE IF wave = SQUARE_WAVE
                       THEN BitOr(BitOr(c0, AD9833_CTRL_OPBITEN), AD9833_CTRL_DIV2)
                  ELSE c0
            c2 == BitClear(c1, AD9833_CTRL_RESET)
            m1 == Store(m, p, c2)
        IN  AD9833_Write(m1, choice, Deref(m1, p))

----------------------------------------------------------------------------
(* Inputs of the public operations *)

Choices == {0, CS1, CS2, CS_BOTH}
Statuses == {CS1_SINGLE, CS2_SINGLE, CS1_CS2_DOUBLE, 3}
RegNums == {0, 1, 2}
Waves == {0, SINE_WAVE, TRIANGLE_WAVE, SQUARE_WAVE}
Flags == {0, 1}
Freqs == {1000000, 20000000}
Phases == {90, 540}

Banks == {0, 1}

\* frequencies of the conversion checks: every whole Hz up to MaxLowHz, the
\* grid of the frequencies whose tuning value is a whole number, the
\* neighbourhood of 1 MHz and of the 12.5 MHz limit, and values out of range
FreqsWide ==
    (0..MaxLowHz)
    \cup {390625 * k : k \in 0..MaxGrid}
    \cup {1000000 + d : d \in 0..2}
    \cup {12500000 + d - 3 : d \in 0..6}
    \cup {0 - 1, 0 - 1000, 20000000}

\* phases of the conversion checks, in whole degrees: a 15 degree grid over
\* several turns either way, and the neighbours of the turn boundaries
PhasesWide ==
    {15 * k : k \in (0 - MaxPhaseSteps)..MaxPhaseSteps}
    \cup {1, 359, 361, 719, 0 - 1, 0 - 359, 0 - 361}

\* DDS_InitTypedef of a channel in use
ConfigsCS1 ==
    [wave : {SINE_WAVE, TRIANGLE_WAVE, SQUARE_WAVE}, freq : {1000000}, phase : {0},
     freqReg : Banks, phaseReg : Banks]
ConfigsCS2 ==
    [wave : {SINE_WAVE, SQUARE_WAVE}, freq : {2500000}, phase : {90},
     freqReg : Banks, phaseReg : Banks]

\* DDS_InitTypedef of a channel not in use: all members 0
ZeroConfig == [wave |-> 0, freq |-> 0, phase |-> 0, freqReg |-> 0, phaseReg |-> 0]

\* AD9833_InitTypedef: both channels filled in for two-channel operation, the
\* unused channel zero otherwise
InitStructs ==
    [status : {CS1_CS2_DOUBLE}, AD_CS1 : ConfigsCS1, AD_CS2 : ConfigsCS2]
    \cup [status : {CS1_SINGLE}, AD_CS1 : ConfigsCS1, AD_CS2 : {ZeroConfig}]
    \cup [status : {CS2_SINGLE}, AD_CS1 : {ZeroConfig}, AD_CS2 : ConfigsCS2]
    \cup [status : {3}, AD_CS1 : {ZeroConfig}, AD_CS2 : {ZeroConfig}]

\* AD9833_Cmd_Sync needs the parameters of both channels
SyncStructs == {st \in InitStructs : st.status = CS1_CS2_DOUBLE}

NA == 0 - 1
NoStruct == [status |-> NA, AD_CS1 |-> ZeroConfig, AD_CS2 |-> ZeroConfig]

Args(choice, num, val, val2, st) ==
    [choice |-> choice, num |-> num, val |-> val, val2 |-> val2, st |-> st]

NoArgs == Args(NA, NA, NA, NA, NoStruct)

----------------------------------------------------------------------------
(* Unit conversion *)

FREQ_REG_MAX == 268435456
MCLK_Hz == 25000000
FREQ_LIMIT_Hz == 12500000

\* <<q, r>> with a * b = q * c + r and 0 <= r < c, for a, b >= 0, by doubling
\* (no intermediate product leaves 32 bits)
RECURSIVE MulDivMod(_, _, _)
MulDivMod(a, b, c) ==
    IF b = 0 THEN <<0, 0>>
    ELSE LET h == MulDivMod(a, b \div 2, c)
             r2 == 2 * h[2] + (b % 2) * (a % c)
         IN  <<2 * h[1] + (b % 2) * (a \div c) + (r2 \div c), r2 % c>>

\* variant: the product rounded to the nearest whole number
TruncFreqTimesScale_Nearest(freq) ==
    LET d == MulDivMod(freq, FREQ_REG_MAX, MCLK_Hz)
    IN  d[1] + (IF 2 * d[2] >= MCLK_Hz THEN 1 ELSE 0)

\* (uint32_t)(freq * freqScale), freqScale = (double)FREQ_REG_MAX / 25000000.0,
\* for freq a whole number of Hz in [0, 12500000]: the double product truncated
\* toward zero, which for every such freq is floor(freq * 2^28 / 25000000)
TruncFreqTimesScale(freq) == MulDivMod(freq, FREQ_REG_MAX, MCLK_Hz)[1]

\* variant: the upper limit is not applied
FreqClamp_NoUpper(freq) == IF freq < 0 THEN 0 ELSE freq

FreqClamp(freq) ==
    LET f1 == IF freq < 0 THEN 0 ELSE freq
    IN  IF f1 > FREQ_LIMIT_Hz THEN FREQ_LIMIT_Hz ELSE f1

\* variant: the mask is one bit short
FreqDataRaw_27Bits(freq) == BitAnd(TruncFreqTimesScale(FreqClamp(freq)), 134217727)

\* freq_data_raw after the 28-bit mask
FreqDataRaw(freq) == BitAnd(TruncFreqTimesScale(FreqClamp(freq)), 268435455)

\* the frequencies the model passes to the driver
FreqInputs ==
    Freqs \cup FreqsWide
    \cup {c.freq : c \in ConfigsCS1 \cup ConfigsCS2 \cup {ZeroConfig}}

\* FreqDataRaw tabulated over the frequencies the model uses
FreqDataRawOf == [freq \in FreqInputs |-> FreqDataRaw(freq)]

\* fmod(x, y) for whole x and y > 0: the result has the sign of x
Fmod(x, y) == IF x >= 0 THEN x % y ELSE 0 - ((0 - x) % y)

\* variant: full scale taken as 4095
PhaseScaled_FullScale4095(phase) ==
    LET r == Fmod(phase, 360)
    IN  IF r >= 0 THEN (r * 4095) \div 360 ELSE 0 - (((0 - r) * 4095) \div 360)

\* fmod(phase, 360.0) / 360.0 * 4096.0 truncated toward zero
PhaseScaled(phase) ==
    LET r == Fmod(phase, 360)
    IN  IF r >= 0 THEN (r * 4096) \div 360 ELSE 0 - (((0 - r) * 4096) \div 360)

\* Results the conversion (uint16_t)(double) can give.  A value in [0, 65535]
\* converts exactly; a value <= -1 is outside the range of uint16_t and the
\* conversion is undefined: a saturating conversion gives 0, a conversion
\* through a signed integer gives the value modulo 2^16.
CastToU16(v) == IF v >= 0 THEN {v % 65536} ELSE {0, 65536 + v}

\* phase_data_raw before the 12-bit mask
PhaseCast(phase) == CastToU16(PhaseScaled(phase))

----------------------------------------------------------------------------
(* Register operations *)

\* u: the result of the uint16_t conversion, one of PhaseCast(phase)
\* AD9833_PhaseSet that puts the prefix of PHASE0 on the words of both banks
AD9833_PhaseSet_Phase0Only(m, choice, phase_reg_num, phase, u) ==
    LET phase_data_raw == BitAnd(u, 4095) IN
    IF phase_reg_num \in {0, 1}
    THEN AD9833_Write(m, choice, BitOr(AD9833_CMD_PHASE0REG, phase_data_raw))
    ELSE m

AD9833_PhaseSet(m, choice, phase_reg_num, phase, u) ==
    LET phase_data_raw == BitAnd(u, 4095) IN
    IF phase_reg_num = 0
    THEN AD9833_Write(m, choice, BitOr(AD9833_CMD_PHASE0REG, phase_data_raw))
    ELSE IF phase_reg_num = 1
    THEN AD9833_Write(m, choice, BitOr(AD9833_CMD_PHASE1REG, phase_data_raw))
    ELSE m

\* variant: the high half is written before the low half
AD9833_FreqSet_HighFirst(m, choice, freq_reg_num, freq) ==
    LET freq_data_raw == FreqDataRawOf[freq]
        freq_LSB == BitAnd(freq_data_raw, 16383)
        freq_MSB == BitAnd(freq_data_raw \div 16384, 16383)
        freq_cmd == IF freq_reg_num = 0 THEN AD9833_CMD_FREQ0REG
                    ELSE AD9833_CMD_FREQ1REG
    IN  IF freq_reg_num \notin {0, 1} THEN m
        ELSE AD9833_Write(AD9833_Write(m, choice, BitOr(freq_cmd, freq_MSB)),
                          choice, BitOr(freq_cmd, freq_LSB))

\* AD9833_FreqSet that first makes sure of B28 and wakes the chip: the shadow
\* is rewritten and transmitted before the two words
AD9833_FreqSet_SendsB28(m, choice, freq_reg_num, freq) ==
    LET freq_data_raw == FreqDataRawOf[freq]
        freq_LSB == BitAnd(freq_data_raw, 16383)
        freq_MSB == BitAnd(freq_data_raw \div 16384, 16383)
        freq_cmd == IF freq_reg_num = 0 THEN AD9833_CMD_FREQ0REG
                    ELSE AD9833_CMD_FREQ1REG
        p == AD9833_GetShadowCtrlReg(choice)
        m1 == IF p = "NULL" THEN m
              ELSE Store(m, p, BitClear(BitOr(Deref(m, p), AD9833_CTRL_B28),
                                        AD9833_CTRL_SLEEP1))
        m2 == IF p = "NULL" THEN m1 ELSE AD9833_Write(m1, choice, Deref(m1, p))
    IN  IF freq_reg_num \notin {0, 1} THEN m
        ELSE AD9833_Write(AD9833_Write(m2, choice, BitOr(freq_cmd, freq_LSB)),
                          choice, BitOr(freq_cmd, freq_MSB))

AD9833_FreqSet(m, choice, freq_reg_num, freq) ==
    LET freq_data_raw == FreqDataRawOf[freq]
        freq_LSB == BitAnd(freq_data_raw, 16383)
        freq_MSB == BitAnd(freq_data_raw \div 16384, 16383)
        freq_cmd == IF freq_reg_num = 0 THEN AD9833_CMD_FREQ0REG
                    ELSE AD9833_CMD_FREQ1REG
    IN  IF freq_reg_num \notin {0, 1} THEN m
        ELSE AD9833_Write(AD9833_Write(m, choice, BitOr(freq_cmd, freq_LSB)),
                          choice, BitOr(freq_cmd, freq_MSB))

AD9833_SelectFreqReg(m, choice, freq_reg_num) ==
    LET p == AD9833_GetShadowCtrlReg(choice) IN
    IF p = "NULL" THEN m
    ELSE
        LET v == IF freq_reg_num = 0
                 THEN BitClear(Deref(m, p), AD9833_CTRL_FSELECT)
                 ELSE BitOr(Deref(m, p), AD9833_CTRL_FSELECT)
            m1 == Store(m, p, v)
        IN  AD9833_Write(m1, choice, Deref(m1, p))

\* AD9833_SelectPhaseReg that works on FSELECT
AD9833_SelectPhaseReg_OnFSELECT(m, choice, phase_reg_num) ==
    LET p == AD9833_GetShadowCtrlReg(choice) IN
    IF p = "NULL" THEN m
    ELSE
        LET v == IF phase_reg_num = 0
                 THEN BitClear(Deref(m, p), AD9833_CTRL_FSELECT)
                 ELSE BitOr(Deref(m, p), AD9833_CTRL_FSELECT)
            m1 == Store(m, p, v)
        IN  AD9833_Write(m1, choice, Deref(m1, p))

AD9833_SelectPhaseReg(m, choice, phase_reg_num) ==
    LET p == AD9833_GetShadowCtrlReg(choice) IN
    IF p = "NULL" THEN m
    ELSE
        LET v == IF phase_reg_num = 0
                 THEN BitClear(Deref(m, p), AD9833_CTRL_PSELECT)
                 ELSE BitOr(Deref(m, p), AD9833_CTRL_PSELECT)
            m1 == Store(m, p, v)
        IN  AD9833_Write(m1, choice, Deref(m1, p))

\* AD9833_Reset that works on bit 9, the bit next to RESET
AD9833_Reset_Bit9(m, choice, reset_active) ==
    LET p == AD9833_GetShadowCtrlReg(choice) IN
    IF p = "NULL" THEN m
    ELSE
        LET v == IF reset_active # 0
                 THEN BitOr(Deref(m, p), 512)
                 ELSE BitClear(Deref(m, p), 512)
            m1 == Store(m, p, v)
        IN  AD9833_Write(m1, choice, Deref(m1, p))

AD9833_Reset(m, choice, reset_active) ==
    LET p == AD9833_GetShadowCtrlReg(choice) IN
    IF p = "NULL" THEN m
    ELSE
        LET v == IF reset_active # 0
                 THEN BitOr(Deref(m, p), AD9833_CTRL_RESET)
                 ELSE BitClear(Deref(m, p), AD9833_CTRL_RESET)
            m1 == Store(m, p, v)
        IN  AD9833_Write(m1, choice, Deref(m1, p))

\* AD9833_Sleep with the two flags taken for each other
AD9833_Sleep_Swapped(m, choice, sleep1_active, sleep12_active) ==
    LET p == AD9833_GetShadowCtrlReg(choice) IN
    IF p = "NULL" THEN m
    ELSE
        LET v1 == IF sleep12_active # 0
                  THEN BitOr(Deref(m, p), AD9833_CTRL_SLEEP1)
                  ELSE BitClear(Deref(m, p), AD9833_CTRL_SLEEP1)
            v2 == IF sleep1_active # 0
                  THEN BitOr(v1, AD9833_CTRL_SLEEP12)
                  ELSE BitClear(v1, AD9833_CTRL_SLEEP12)
            m1 == Store(m, p, v2)
        IN  AD9833_Write(m1, choice, Deref(m1, p))

AD9833_Sleep(m, choice, sleep1_active, sleep12_active) ==
    LET p == AD9833_GetShadowCtrlReg(choice) IN
    IF p = "NULL" THEN m
    ELSE
        LET v1 == IF sleep1_active # 0
                  THEN BitOr(Deref(m, p), AD9833_CTRL_SLEEP1)
                  ELSE BitClear(Deref(m, p), AD9833_CTRL_SLEEP1)
            v2 == IF sleep12_active # 0
                  THEN BitOr(v1, AD9833_CTRL_SLEEP12)
                  ELSE BitClear(v1, AD9833_CTRL_SLEEP12)
            m1 == Store(m, p, v2)
        IN  AD9833_Write(m1, choice, Deref(m1, p))

----------------------------------------------------------------------------
(* Top-level operations.  u1, u2: the results of the two phase conversions. *)

\* variant: waveform and start come first
ConfigureChannel_StartFirst(m, choice, cfg, u) ==
    LET a == AD9833_SetWaveformAndStart(m, choice, cfg.wave)
        b == AD9833_SelectFreqReg(a, choice, cfg.freqReg)
        c == AD9833_SelectPhaseReg(b, choice, cfg.phaseReg)
        d == AD9833_FreqSet(c, choice, cfg.freqReg, cfg.freq)
    IN  AD9833_PhaseSet(d, choice, cfg.phaseReg, cfg.phase, u)

\* select banks, frequency, phase, waveform and start of one channel
ConfigureChannel(m, choice, cfg, u) ==
    LET a == AD9833_SelectFreqReg(m, choice, cfg.freqReg)
        b == AD9833_SelectPhaseReg(a, choice, cfg.phaseReg)
        c == AD9833_FreqSet(b, choice, cfg.freqReg, cfg.freq)
        d == AD9833_PhaseSet(c, choice, cfg.phaseReg, cfg.phase, u)
    IN  AD9833_SetWaveformAndStart(d, choice, cfg.wave)

\* AD9833_Cmd whose second test repeats the first: chip 2 is configured
\* whenever chip 1 is
AD9833_Cmd_SecondTestCopied(m, AD_InitStruct, u1, u2) ==
    LET st == AD_InitStruct.status
        a == AD9833_Init(m, st)
        b == IF st = CS1_SINGLE \/ st = CS1_CS2_DOUBLE
             THEN ConfigureChannel(a, CS1, AD_InitStruct.AD_CS1, u1)
             ELSE a
    IN  IF st = CS1_SINGLE \/ st = CS1_CS2_DOUBLE
        THEN ConfigureChannel(b, CS2, AD_InitStruct.AD_CS2, u2)
        ELSE b

AD9833_Cmd(m, AD_InitStruct, u1, u2) ==
    LET st == AD_InitStruct.status
        a == AD9833_Init(m, st)
        b == IF st = CS1_SINGLE \/ st = CS1_CS2_DOUBLE
             THEN ConfigureChannel(a, CS1, AD_InitStruct.AD_CS1, u1)
             ELSE a
    IN  IF st = CS2_SINGLE \/ st = CS1_CS2_DOUBLE
        THEN ConfigureChannel(b, CS2, AD_InitStruct.AD_CS2, u2)
        ELSE b

\* variant: each channel is also started on its own
LoadChannel_WithStart(m, choice, cfg, u) ==
    LET a == AD9833_SelectFreqReg(m, choice, cfg.freqReg)
        b == AD9833_FreqSet(a, choice, cfg.freqReg, cfg.freq)
        c == AD9833_SelectPhaseReg(b, choice, cfg.phaseReg)
        d == AD9833_PhaseSet(c, choice, cfg.phaseReg, cfg.phase, u)
    IN  AD9833_SetWaveformAndStart(d, choice, cfg.wave)

\* bank, frequency and phase of one channel while held in reset
LoadChannel(m, choice, cfg, u) ==
    LET a == AD9833_SelectFreqReg(m, choice, cfg.freqReg)
        b == AD9833_FreqSet(a, choice, cfg.freqReg, cfg.freq)
        c == AD9833_SelectPhaseReg(b, choice, cfg.phaseReg)
    IN  AD9833_PhaseSet(c, choice, cfg.phaseReg, cfg.phase, u)

\* start_cmd of AD9833_Cmd_Sync
StartCmd(wave) ==
    LET s == BitOr(AD9833_CMD_CTRLREG, AD9833_CTRL_B28)
    IN  IF wave = TRIANGLE_WAVE THEN BitOr(s, AD9833_CTRL_MODE)
        ELSE IF wave = SQUARE_WAVE
             THEN BitOr(s, BitOr(AD9833_CTRL_OPBITEN, AD9833_CTRL_DIV2))
        ELSE s

\* variant: the start word takes the waveform of channel 2
AD9833_Cmd_Sync_WaveOfCS2(m, AD_InitStruct, u1, u2) ==
    LET reset_cmd == BitOr(BitOr(AD9833_CMD_CTRLREG, AD9833_CTRL_B28), AD9833_CTRL_RESET)
        a == AD9833_Write(m, CS_BOTH, reset_cmd)
        b == LoadChannel(a, CS1, AD_InitStruct.AD_CS1, u1)
        c == LoadChannel(b, CS2, AD_InitStruct.AD_CS2, u2)
    IN  AD9833_Write(c, CS_BOTH, StartCmd(AD_InitStruct.AD_CS2.wave))

AD9833_Cmd_Sync(m, AD_InitStruct, u1, u2) ==
    LET reset_cmd == BitOr(BitOr(AD9833_CMD_CTRLREG, AD9833_CTRL_B28), AD9833_CTRL_RESET)
        a == AD9833_Write(m, CS_BOTH, reset_cmd)
        b == LoadChannel(a, CS1, AD_InitStruct.AD_CS1, u1)
        c == LoadChannel(b, CS2, AD_InitStruct.AD_CS2, u2)
    IN  AD9833_Write(c, CS_BOTH, StartCmd(AD_InitStruct.AD_CS1.wave))

----------------------------------------------------------------------------
(* State machine: one action per public operation.  A public operation is  *)
(* called when the bus recorder is empty; the recorder then holds the call *)
(* and its transmissions until Collect empties it.                         *)

Init ==
    /\ s_control_reg_cs1 = ShadowInit
    /\ s_control_reg_cs2 = ShadowInit
    /\ chip_ctrl1 = NoWord
    /\ chip_ctrl2 = NoWord
    /\ trace = <<>>
    /\ op = "none"
    /\ arg = NoArgs
    /\ nOps = 0

\* the machine a public operation starts from
Entry == Machine(s_control_reg_cs1, s_control_reg_cs2, chip_ctrl1, chip_ctrl2)

\* the operation `name' with arguments `a' has run and left the machine m
Return(name, a, m) ==
    /\ op' = name
    /\ arg' = a
    /\ s_control_reg_cs1' = m.cs1
    /\ s_control_reg_cs2' = m.cs2
    /\ chip_ctrl1' = m.chip1
    /\ chip_ctrl2' = m.chip2
    /\ trace' = m.tr

\* one more public operation of the run
Issue ==
    /\ op = "none"
    /\ nOps < MaxOps
    /\ nOps' = nOps + 1

CallInit ==
    /\ Issue
    /\ \E status \in Statuses :
        Return("Init", Args(NA, status, NA, NA, NoStruct), AD9833_Init(Entry, status))

CallSetWaveformAndStart ==
    /\ Issue
    /\ \E choice \in Choices, wave \in Waves :
        Return("SetWaveformAndStart", Args(choice, NA, wave, NA, NoStruct),
               AD9833_SetWaveformAndStart(Entry, choice, wave))

CallPhaseSet ==
    /\ Issue
    /\ \E choice \in Choices, num \in RegNums, phase \in Phases :
        \E u \in PhaseCast(phase) :
            Return("PhaseSet", Args(choice, num, phase, NA, NoStruct),
                   AD9833_PhaseSet(Entry, choice, num, phase, u))

CallFreqSet ==
    /\ Issue
    /\ \E choice \in Choices, num \in RegNums, freq \in Freqs :
        Return("FreqSet", Args(choice, num, freq, NA, NoStruct),
               AD9833_FreqSet(Entry, choice, num, freq))

CallSelectFreqReg ==
    /\ Issue
    /\ \E choice \in Choices, num \in RegNums :
        Return("SelectFreqReg", Args(choice, num, NA, NA, NoStruct),
               AD9833_SelectFreqReg(Entry, choice, num))

CallSelectPhaseReg ==
    /\ Issue
    /\ \E choice \in Choices, num \in RegNums :
        Return("SelectPhaseReg", Args(choice, num, NA, NA, NoStruct),
               AD9833_SelectPhaseReg(Entry, choice, num))

CallReset ==
    /\ Issue
    /\ \E choice \in Choices, reset_active \in Flags :
        Return("Reset", Args(choice, NA, reset_active, NA, NoStruct),
               AD9833_Reset(Entry, choice, reset_active))

CallSleep ==
    /\ Issue
    /\ \E choice \in Choices, sleep1_active \in Flags, sleep12_active \in Flags :
        Return("Sleep", Args(choice, NA, sleep1_active, sleep12_active, NoStruct),
               AD9833_Sleep(Entry, choice, sleep1_active, sleep12_active))

CallCmd ==
    /\ Issue
    /\ \E st \in InitStructs :
        \E u1 \in PhaseCast(st.AD_CS1.phase), u2 \in PhaseCast(st.AD_CS2.phase) :
            Return("Cmd", Args(NA, NA, NA, NA, st), AD9833_Cmd(Entry, st, u1, u2))

CallCmdSync ==
    /\ Issue
    /\ \E st \in SyncStructs :
        \E u1 \in PhaseCast(st.AD_CS1.phase), u2 \in PhaseCast(st.AD_CS2.phase) :
            Return("Cmd_Sync", Args(NA, NA, NA, NA, st),
                   AD9833_Cmd_Sync(Entry, st, u1, u2))

\* contents a read at address 0 may yield, as AD9833_InitTypedef: one
\* structure per status
NullStructs ==
    {st \in InitStructs :
        /\ st.AD_CS1.wave \in {0, SINE_WAVE} /\ st.AD_CS2.wave \in {0, SINE_WAVE}
        /\ st.AD_CS1.freqReg = 0 /\ st.AD_CS1.phaseReg = 0
        /\ st.AD_CS2.freqReg = 0 /\ st.AD_CS2.phaseReg = 0}

\* AD9833_Cmd(NULL).  AD_InitStruct->status reads through a null pointer,
\* which is undefined: the read traps (the call never returns, op becomes
\* "HardFault"), or it yields what lies at address 0 and the call goes on as
\* with a structure of those contents.
CallCmdNull ==
    /\ Issue
    /\ \/ Return("HardFault", Args(NA, NA, NA, NA, NoStruct), Entry)
       \/ \E st \in NullStructs :
              \E u1 \in PhaseCast(st.AD_CS1.phase), u2 \in PhaseCast(st.AD_CS2.phase) :
                  Return("Cmd_NULL", Args(NA, NA, NA, NA, st),
                         AD9833_Cmd(Entry, st, u1, u2))

\* AD9833_Cmd_Sync(NULL).  The broadcast of reset_cmd comes before the first
\* read through the pointer; then as for AD9833_Cmd(NULL).
CallCmdSyncNull ==
    /\ Issue
    /\ \/ Return("HardFault", Args(NA, NA, NA, NA, NoStruct),
                 AD9833_Write(Entry, CS_BOTH,
                              BitOr(BitOr(AD9833_CMD_CTRLREG, AD9833_CTRL_B28),
                                    AD9833_CTRL_RESET)))
       \/ \E st \in NullStructs \cap SyncStructs :
              \E u1 \in PhaseCast(st.AD_CS1.phase), u2 \in PhaseCast(st.AD_CS2.phase) :
                  Return("Cmd_Sync_NULL", Args(NA, NA, NA, NA, st),
                         AD9833_Cmd_Sync(Entry, st, u1, u2))

\* the recorder is read and emptied; driver and chips are not touched
Collect ==
    /\ op # "none"
    /\ op # "HardFault"
    /\ op' = "none"
    /\ arg' = NoArgs
    /\ trace' = <<>>
    /\ UNCHANGED <<s_control_reg_cs1, s_control_reg_cs2, chip_ctrl1, chip_ctrl2, nOps>>

Next ==
    \/ CallInit
    \/ CallSetWaveformAndStart
    \/ CallPhaseSet
    \/ CallFreqSet
    \/ CallSelectFreqReg
    \/ CallSelectPhaseReg
    \/ CallReset
    \/ CallSleep
    \/ CallCmd
    \/ CallCmdSync
    \/ CallCmdNull
    \/ CallCmdSyncNull
    \/ Collect

Spec == Init /\ [][Next]_vars

----------------------------------------------------------------------------
(* AD9833_FreqSet alone, over FreqsWide *)

CallFreqSetWide ==
    /\ \E choice \in {CS1, CS2}, num \in Banks, freq \in FreqsWide :
        Return("FreqSet", Args(choice, num, freq, NA, NoStruct),
               AD9833_FreqSet(Entry, choice, num, freq))
    /\ UNCHANGED nOps

NextFreq == CallFreqSetWide

SpecFreq == Init /\ [][NextFreq]_vars

----------------------------------------------------------------------------
(* AD9833_PhaseSet alone, over PhasesWide *)

CallPhaseSetWide ==
    /\ \E choice \in {CS1, CS2}, num \in Banks, phase \in PhasesWide :
        \E u \in PhaseCast(phase) :
            Return("PhaseSet", Args(choice, num, phase, NA, NoStruct),
                   AD9833_PhaseSet(Entry, choice, num, phase, u))
    /\ UNCHANGED nOps

NextPhase == CallPhaseSetWide

SpecPhase == Init /\ [][NextPhase]_vars

----------------------------------------------------------------------------
(* The hardware-SPI variant (usart_printf.c): AD9833_Write hands the word   *)
(* to HAL_SPI_Transmit, which reports HAL_OK or a failure.  A bus attempt   *)
(* is recorded with that report; the chip takes the word on HAL_OK only.    *)

\* HAL_StatusTypeDef as HAL_SPI_Transmit returns it
HalStatuses == {"HAL_OK", "HAL_ERROR", "HAL_BUSY", "HAL_TIMEOUT"}

\* words handed to AD9833_Write directly
HalWords == {8448, 8192, 8512, 8232, 16384 + 5898, 49152 + 1024}

\* HAL_SPI_Transmit between the chip-select edges
Transmit_HAL(m, chips, choice, TxData, hal) ==
    [m EXCEPT
        !.chip1 = IF 1 \in chips /\ IsCtrlWord(TxData) /\ hal = "HAL_OK"
                  THEN TxData ELSE @,
        !.chip2 = IF 2 \in chips /\ IsCtrlWord(TxData) /\ hal = "HAL_OK"
                  THEN TxData ELSE @,
        !.tr = Append(@, [target |-> choice, word |-> TxData,
                          sh1 |-> m.cs1, sh2 |-> m.cs2, hal |-> hal])]

\* AD9833_Write that tries the transfer a second time when it was refused
AD9833_Write_HAL_Retry(m, choice, TxData, hal) ==
    LET chips == IF choice = CS1 THEN {1} ELSE IF choice = CS2 THEN {2}
                 ELSE IF choice = CS_BOTH THEN {1, 2} ELSE {}
        m1 == Transmit_HAL(m, chips, choice, TxData, hal)
    IN  IF chips = {} THEN m
        ELSE IF hal = "HAL_OK" THEN m1
        ELSE Transmit_HAL(m1, chips, choice, TxData, hal)

AD9833_Write_HAL(m, choice, TxData, hal) ==
    IF choice = CS1 THEN Transmit_HAL(m, {1}, choice, TxData, hal)
    ELSE IF choice = CS2 THEN Transmit_HAL(m, {2}, choice, TxData, hal)
    ELSE IF choice = CS_BOTH THEN Transmit_HAL(m, {1, 2}, choice, TxData, hal)
    ELSE m

\* what the caller of AD9833_Write gets back: the function is void and the
\* value of HAL_SPI_Transmit is not kept, so nothing, whatever the report
Returned_Write_HAL(hal) == NA

AD9833_Reset_HAL(m, choice, reset_active, hal) ==
    LET p == AD9833_GetShadowCtrlReg(choice) IN
    IF p = "NULL" THEN m
    ELSE
        LET v == IF reset_active # 0
                 THEN BitOr(Deref(m, p), AD9833_CTRL_RESET)
                 ELSE BitClear(Deref(m, p), AD9833_CTRL_RESET)
            m1 == Store(m, p, v)
        IN  AD9833_Write_HAL(m1, choice, Deref(m1, p), hal)

\* what the caller of AD9833_Reset gets back: void as well
Returned_Reset_HAL(hal) == Returned_Write_HAL(hal)

CallWriteHAL ==
    /\ \E choice \in {CS1, CS2, CS_BOTH}, TxData \in HalWords, hal \in HalStatuses :
        Return("Write_HAL", Args(choice, NA, TxData, Returned_Write_HAL(hal), NoStruct),
               AD9833_Write_HAL(Entry, choice, TxData, hal))
    /\ UNCHANGED nOps

CallResetHAL ==
    /\ \E choice \in {CS1, CS2}, reset_active \in Flags, hal \in HalStatuses :
        Return("Reset_HAL", Args(choice, NA, reset_active, Returned_Reset_HAL(hal), NoStruct),
               AD9833_Reset_HAL(Entry, choice, reset_active, hal))
    /\ UNCHANGED nOps

NextHAL ==
    \/ CallWriteHAL
    \/ CallResetHAL

SpecHAL == Init /\ [][NextHAL]_vars

----------------------------------------------------------------------------
(* The bit-banged transport pin by pin: the recorder holds the levels of   *)
(* the four lines, first as AD9833_Write found them, then after each       *)
(* write to a pin.                                                         *)

\* levels the GPIO set-up gives the four lines
PinsInit == [cs1 |-> 1, cs2 |-> 1, sclk |-> 1, mosi |-> 0]

\* DL_GPIO_setPins / DL_GPIO_clearPins on one line
DrivePin(w, pin, level) == Append(w, [w[Len(w)] EXCEPT ![pin] = level])

\* words handed to the bit-banged AD9833_Write
WireWords == {1, 8448, 16384 + 5898, 21845, 32768, 43690, 49152 + 1024, 65535}

\* the loop of AD9833_Write_Software from pass i on
RECURSIVE ShiftOut(_, _, _)
ShiftOut(w, TxData, i) ==
    IF i >= 16 THEN w
    ELSE
        LET w1 == DrivePin(w, "mosi", IF HasBit(TxData, 32768) THEN 1 ELSE 0)
            w2 == DrivePin(w1, "sclk", 0)
            w3 == DrivePin(w2, "sclk", 1)
        IN  ShiftOut(w3, (TxData * 2) % 65536, i + 1)

\* AD9833_Write_Software that shifts the word out from bit 0 up
RECURSIVE ShiftOut_LSBFirst(_, _, _)
ShiftOut_LSBFirst(w, TxData, i) ==
    IF i >= 16 THEN w
    ELSE
        LET w1 == DrivePin(w, "mosi", TxData % 2)
            w2 == DrivePin(w1, "sclk", 0)
            w3 == DrivePin(w2, "sclk", 1)
        IN  ShiftOut_LSBFirst(w3, TxData \div 2, i + 1)

AD9833_Write_Software_LSBFirst(w, TxData) == ShiftOut_LSBFirst(w, TxData, 0)

AD9833_Write_Software(w, TxData) == ShiftOut(w, TxData, 0)

\* AD9833_Write on the pins
AD9833_Write_Pins(w, choice, TxData) ==
    IF choice = CS1
    THEN DrivePin(AD9833_Write_Software(DrivePin(w, "cs1", 0), TxData), "cs1", 1)
    ELSE IF choice = CS2
    THEN DrivePin(AD9833_Write_Software(DrivePin(w, "cs2", 0), TxData), "cs2", 1)
    ELSE IF choice = CS_BOTH
    THEN DrivePin(DrivePin(
            AD9833_Write_Software(DrivePin(DrivePin(w, "cs1", 0), "cs2", 0), TxData),
            "cs1", 1), "cs2", 1)
    ELSE w

\* the levels an AD9833_Write finds: those the last one left
PinsAtEntry == IF trace = <<>> THEN PinsInit ELSE trace[Len(trace)]

CallWritePins ==
    /\ \E choice \in Choices, TxData \in WireWords :
        Return("Write_Pins", Args(choice, NA, TxData, NA, NoStruct),
               [AD9833_Write(Entry, choice, TxData) EXCEPT
                    !.tr = AD9833_Write_Pins(<<PinsAtEntry>>, choice, TxData)])
    /\ UNCHANGED nOps

NextWire == CallWritePins

SpecWire == Init /\ [][NextWire]_vars

----------------------------------------------------------------------------
(* The three AD9833_Write of the repository side by side: the bit-banged   *)
(* one, the one of AD9833_HAL.c and the one of usart_printf.c, each given  *)
(* the same target and word. The recorder holds what each puts on the bus. *)

\* frame sizes the SPI peripheral can be set up with
DataSizes == {8, 16}

\* bytes the peripheral may find behind the end of a buffer
BytesBeyond == {0, 85, 170, 255}

\* bit n-1 down to bit 0 of v
BitsOf(v, n) == [i \in 1..n |-> (v \div (2 ^ (n - i))) % 2]

\* HAL_SPI_Transmit(hspi, pData, Size, timeout): Size frames of DataSize
\* bits, each sent from its highest bit; a 16-bit frame is read from two
\* bytes of the buffer, the lower one first; `beyond' is a byte read
\* behind the end of the buffer
RECURSIVE HAL_SPI_Frames(_, _, _, _, _)
HAL_SPI_Frames(pData, Size, DataSize, beyond, i) ==
    IF i > Size THEN <<>>
    ELSE
        LET Byte(k) == IF k <= Len(pData) THEN pData[k] ELSE beyond
            frame == IF DataSize = 8 THEN BitsOf(Byte(i), 8)
                     ELSE BitsOf(Byte(2 * i - 1) + 256 * Byte(2 * i), 16)
        IN  frame \o HAL_SPI_Frames(pData, Size, DataSize, beyond, i + 1)

HAL_SPI_Transmit(pData, Size, DataSize, beyond) ==
    HAL_SPI_Frames(pData, Size, DataSize, beyond, 1)

\* what one AD9833_Write put on the bus: the capture of the pins of the
\* bit-banged one, or the chip-selects held low around the transfer of the
\* peripheral and the bits of that transfer
OnBus(variant, pins, sel, bits) ==
    [variant |-> variant, pins |-> pins, sel |-> sel, bits |-> bits]

\* AD9833_Write of AD9833_HAL.c
AD9833_Write_HAL2(choice, TxData, DataSize, beyond) ==
    LET data == <<(TxData \div 256) % 256, TxData % 256>> IN
    IF choice = CS1
    THEN OnBus("AD9833_HAL.c", <<>>, {"cs1"}, HAL_SPI_Transmit(data, 2, DataSize, beyond))
    ELSE IF choice = CS2
    THEN OnBus("AD9833_HAL.c", <<>>, {"cs2"}, HAL_SPI_Transmit(data, 2, DataSize, beyond))
    ELSE OnBus("AD9833_HAL.c", <<>>, {}, <<>>)

\* AD9833_Write of usart_printf.c; (uint8_t*)&TxData points at the lower
\* byte of the word
AD9833_Write_HAL1(choice, TxData, DataSize, beyond) ==
    LET data == <<TxData % 256, (TxData \div 256) % 256>> IN
    IF choice = CS1
    THEN OnBus("usart_printf.c", <<>>, {"cs1"}, HAL_SPI_Transmit(data, 1, DataSize, beyond))
    ELSE IF choice = CS2
    THEN OnBus("usart_printf.c", <<>>, {"cs2"}, HAL_SPI_Transmit(data, 1, DataSize, beyond))
    ELSE IF choice = CS_BOTH
    THEN OnBus("usart_printf.c", <<>>, {"cs1", "cs2"},
               HAL_SPI_Transmit(data, 1, DataSize, beyond))
    ELSE OnBus("usart_printf.c", <<>>, {}, <<>>)

CallWriteEach ==
    /\ \E choice \in Choices, TxData \in WireWords,
          DataSize \in DataSizes, beyond \in BytesBeyond :
        Return("Write_Each", Args(choice, DataSize, TxData, NA, NoStruct),
               [Entry EXCEPT !.tr =
                   << OnBus("Soft", AD9833_Write_Pins(<<PinsInit>>, choice, TxData), {}, <<>>),
                      AD9833_Write_HAL2(choice, TxData, DataSize, beyond),
                      AD9833_Write_HAL1(choice, TxData, DataSize, beyond) >>])
    /\ UNCHANGED nOps

NextEach == CallWriteEach

SpecEach == Init /\ [][NextEach]_vars

----------------------------------------------------------------------------
(* Two threads of control on one chip with nothing between them:           *)
(* AD9833_Reset in the main program and AD9833_SelectFreqReg in an         *)
(* interrupt, each in the three steps of its code: read the shadow,        *)
(* write the shadow, call AD9833_Write.                                    *)

Tasks == {"main", "irq"}

Other(t) == IF t = "main" THEN "irq" ELSE "main"

\* the new value of the shadow, from the value v read: the if/else of
\* AD9833_Reset and of AD9833_SelectFreqReg
Reset_Modify(v, reset_active) ==
    IF reset_active # 0 THEN BitOr(v, AD9833_CTRL_RESET)
    ELSE BitClear(v, AD9833_CTRL_RESET)

SelectFreqReg_Modify(v, freq_reg_num) ==
    IF freq_reg_num = 0 THEN BitClear(v, AD9833_CTRL_FSELECT)
    ELSE BitOr(v, AD9833_CTRL_FSELECT)

Modify(t, v) ==
    IF t = "main" THEN Reset_Modify(v, arg.val)
    ELSE SelectFreqReg_Modify(v, arg.num)

\* the write of `*pCtrlReg |= bit' done as one step with its read
ShadowUpdate_Atomic(m, p, t, tmp) == Store(m, p, Modify(t, Deref(m, p)))

\* the write of `*pCtrlReg |= bit': the value read before, changed, is stored
ShadowUpdate(m, p, t, tmp) == Store(m, p, Modify(t, tmp))

\* the argument of AD9833_Write(choice, *pCtrlReg): the shadow read again,
\* or the value just stored kept in a register (the shadow is not volatile)
WriteArgument(m, p, stored) == {Deref(m, p), stored}

\* the machine with the recorder as it stands
Racing == [Entry EXCEPT !.tr = trace]

TaskAt(t, pc) == op = "Racing" /\ arg[t].pc = pc

\* both calls are made, on the same chip
StartRace ==
    /\ op \in {"none", "Raced"}
    /\ \E choice \in {CS1, CS2}, reset_active \in Flags, freq_reg_num \in {0, 1} :
        Return("Racing",
               [choice |-> choice, num |-> freq_reg_num, val |-> reset_active,
                start |-> Deref(Entry, AD9833_GetShadowCtrlReg(choice)),
                main |-> [pc |-> "read", tmp |-> NA, stale |-> FALSE],
                irq |-> [pc |-> "read", tmp |-> NA, stale |-> FALSE]],
               Entry)
    /\ UNCHANGED nOps

\* task t reads the shadow
ReadShadow ==
    /\ \E t \in Tasks :
        /\ TaskAt(t, "read")
        /\ Return("Racing",
                  [arg EXCEPT ![t].pc = "write",
                              ![t].tmp = Deref(Racing, AD9833_GetShadowCtrlReg(arg.choice))],
                  Racing)
    /\ UNCHANGED nOps

\* task t writes the shadow; a task that has read and not yet written now
\* holds a value that is no longer the shadow
WriteShadow ==
    /\ \E t \in Tasks :
        /\ TaskAt(t, "write")
        /\ LET p == AD9833_GetShadowCtrlReg(arg.choice)
               m == ShadowUpdate(Racing, p, t, arg[t].tmp)
           IN  Return("Racing",
                      [arg EXCEPT ![t].pc = "transmit",
                                  ![t].tmp = Deref(m, p),
                                  ![Other(t)].stale =
                                      @ \/ arg[Other(t)].pc = "write"],
                      m)
    /\ UNCHANGED nOps

\* task t calls AD9833_Write and returns
TransmitShadow ==
    /\ \E t \in Tasks :
        /\ TaskAt(t, "transmit")
        /\ \E w \in WriteArgument(Racing, AD9833_GetShadowCtrlReg(arg.choice), arg[t].tmp) :
            Return(IF arg[Other(t)].pc = "returned" THEN "Raced" ELSE "Racing",
                   [arg EXCEPT ![t].pc = "returned"],
                   AD9833_Write(Racing, arg.choice, w))
    /\ UNCHANGED nOps

NextRace ==
    \/ StartRace
    \/ ReadShadow
    \/ WriteShadow
    \/ TransmitShadow

SpecRace == Init /\ [][NextRace]_vars

----------------------------------------------------------------------------
(* AD9833_Cmd_Sync and, right after it, one control operation on a chip *)

\* structures as AD9833_Cmd_Sync asks for them: both channels on bank 0
SyncStructsBank0 ==
    {st \in SyncStructs :
        /\ st.AD_CS1.freqReg = 0 /\ st.AD_CS1.phaseReg = 0
        /\ st.AD_CS2.freqReg = 0 /\ st.AD_CS2.phaseReg = 0}

CallCmdSyncNow ==
    /\ op # "Cmd_Sync"
    /\ \E st \in SyncStructsBank0 :
        \E u1 \in PhaseCast(st.AD_CS1.phase), u2 \in PhaseCast(st.AD_CS2.phase) :
            Return("Cmd_Sync", Args(NA, NA, NA, NA, st),
                   AD9833_Cmd_Sync(Entry, st, u1, u2))
    /\ UNCHANGED nOps

CallSelectFreqRegAfterSync ==
    /\ op = "Cmd_Sync"
    /\ \E choice \in {CS1, CS2}, num \in Banks :
        Return("SelectFreqReg", Args(choice, num, NA, NA, NoStruct),
               AD9833_SelectFreqReg(Entry, choice, num))
    /\ UNCHANGED nOps

CallSelectPhaseRegAfterSync ==
    /\ op = "Cmd_Sync"
    /\ \E choice \in {CS1, CS2}, num \in Banks :
        Return("SelectPhaseReg", Args(choice, num, NA, NA, NoStruct),
               AD9833_SelectPhaseReg(Entry, choice, num))
    /\ UNCHANGED nOps

CallSleepAfterSync ==
    /\ op = "Cmd_Sync"
    /\ \E choice \in {CS1, CS2}, sleep1_active \in Flags, sleep12_active \in Flags :
        Return("Sleep", Args(choice, NA, sleep1_active, sleep12_active, NoStruct),
               AD9833_Sleep(Entry, choice, sleep1_active, sleep12_active))
    /\ UNCHANGED nOps

NextAfterSync ==
    \/ CallCmdSyncNow
    \/ CallSelectFreqRegAfterSync
    \/ CallSelectPhaseRegAfterSync
    \/ CallSleepAfterSync

SpecAfterSync == Init /\ [][NextAfterSync]_vars

----------------------------------------------------------------------------
(* Reading the recorder *)

Word(i) == trace[i].word
Target(i) == trace[i].target
Payload14(w) == w % 16384
Prefix2(w) == w - (w % 16384)
Held(w) == HasBit(w, AD9833_CTRL_RESET)

\* transmissions of the recorded operation that reach chip c (1 or 2)
Reaches(i, c) == Target(i) = c \/ Target(i) = CS_BOTH

\* waveform bits of a waveform, written out bit by bit
WaveBits(wave) ==
    IF wave = TRIANGLE_WAVE THEN AD9833_CTRL_MODE
    ELSE IF wave = SQUARE_WAVE THEN AD9833_CTRL_OPBITEN + AD9833_CTRL_DIV2
    ELSE 0

----------------------------------------------------------------------------
(* C1: whenever an operation has returned and a chip has received a        *)
(* control word, the shadow of that chip equals the last control word      *)
(* delivered to it, broadcasts included.                                   *)
C1_ShadowIsLastDelivered ==
    /\ chip_ctrl1 # NoWord => s_control_reg_cs1 = chip_ctrl1
    /\ chip_ctrl2 # NoWord => s_control_reg_cs2 = chip_ctrl2

(* C2: during AD9833_Cmd_Sync, between the first broadcast (reset) and the *)
(* last broadcast (start), no control word with RESET cleared is delivered *)
(* to either chip.                                                         *)
C2_HeldWhileConfigured ==
    op = "Cmd_Sync" =>
        \A i \in 2..(Len(trace) - 1) :
            IsCtrlWord(Word(i)) => Held(Word(i))

(* C3: the first transmission of AD9833_Cmd_Sync is a broadcast of a       *)
(* control word with B28 and RESET set, and right after it both shadows    *)
(* equal that word.                                                        *)
C3_BothHeldShadowsUpdated ==
    op = "Cmd_Sync" =>
        /\ Len(trace) >= 2
        /\ Target(1) = CS_BOTH
        /\ IsCtrlWord(Word(1))
        /\ HasBit(Word(1), AD9833_CTRL_B28)
        /\ Held(Word(1))
        \* the shadows as that transmission leaves them
        /\ trace[1].sh1 = Word(1)
        /\ trace[1].sh2 = Word(1)

(* C4: the last word of AD9833_Cmd_Sync is a broadcast of exactly B28 plus *)
(* the waveform bits of channel 1's waveform: RESET, the bank selects and  *)
(* the sleep bits are clear, whatever channel 2's waveform and the banks.  *)
C4_StartWordFromChannelA ==
    op = "Cmd_Sync" =>
        /\ Len(trace) >= 1
        /\ Target(Len(trace)) = CS_BOTH
        /\ Word(Len(trace)) = AD9833_CTRL_B28 + WaveBits(arg.st.AD_CS1.wave)

C4_Witness ==
    /\ op = "Cmd_Sync"
    /\ nOps = 2
    /\ arg.st.AD_CS1.wave = SQUARE_WAVE
    /\ arg.st.AD_CS2.wave = SINE_WAVE
    /\ arg.st.AD_CS1.freqReg = 1
    /\ arg.st.AD_CS2.phaseReg = 1
    /\ Word(Len(trace)) = 8232

\* both channels Sine and bank 0
SineBank0(st) ==
    /\ st.AD_CS1.wave = SINE_WAVE /\ st.AD_CS2.wave = SINE_WAVE
    /\ st.AD_CS1.freqReg = 0 /\ st.AD_CS1.phaseReg = 0
    /\ st.AD_CS2.freqReg = 0 /\ st.AD_CS2.phaseReg = 0

\* transmissions i .. i+4 go to chip c alone and are: a control word with
\* FSELECT clear, the FREQ0 words of the low and of the high half of the
\* tuning value of `freq', a control word with PSELECT clear, a PHASE0 word
LoadBlock(i, c, freq) ==
    /\ \A k \in i..(i + 4) : Target(k) = c
    /\ IsCtrlWord(Word(i)) /\ ~HasBit(Word(i), AD9833_CTRL_FSELECT)
    /\ Word(i + 1) = AD9833_CMD_FREQ0REG + (FreqDataRawOf[freq] % 16384)
    /\ Word(i + 2) = AD9833_CMD_FREQ0REG + ((FreqDataRawOf[freq] \div 16384) % 16384)
    /\ IsCtrlWord(Word(i + 3)) /\ ~HasBit(Word(i + 3), AD9833_CTRL_PSELECT)
    /\ Word(i + 4) \div 8192 = 6

(* C5: AD9833_Cmd_Sync with both channels Sine and bank 0 emits twelve     *)
(* words and no other: a broadcast reset word; bank select, frequency low  *)
(* and high, bank select and phase to chip 1 alone, the same to chip 2     *)
(* alone; a broadcast word with RESET and every waveform bit clear.  The   *)
(* first and the last are the only broadcasts, and each channel gets no    *)
(* control word besides its two bank selects.                              *)
C5_SyncTraceSineBank0 ==
    (op = "Cmd_Sync" /\ SineBank0(arg.st)) =>
        /\ Len(trace) = 12
        /\ Target(1) = CS_BOTH
        /\ Word(1) = AD9833_CTRL_B28 + AD9833_CTRL_RESET
        /\ LoadBlock(2, CS1, arg.st.AD_CS1.freq)
        /\ LoadBlock(7, CS2, arg.st.AD_CS2.freq)
        /\ Target(12) = CS_BOTH
        /\ Word(12) = AD9833_CTRL_B28
        /\ {i \in 1..12 : Target(i) = CS_BOTH} = {1, 12}

C5_Witness ==
    /\ op = "Cmd_Sync"
    /\ SineBank0(arg.st)
    /\ nOps = 2
    /\ Len(trace) = 12
    /\ Word(12) = 8192

\* the words AD9833_Init puts out for a status
InitWord1(status) ==
    AD9833_CTRL_B28 + AD9833_CTRL_RESET
    + (IF status = CS2_SINGLE THEN AD9833_CTRL_SLEEP12 ELSE 0)
    + (IF status \notin {CS1_SINGLE, CS2_SINGLE, CS1_CS2_DOUBLE}
       THEN AD9833_CTRL_SLEEP1 + AD9833_CTRL_SLEEP12 ELSE 0)
InitWord2(status) ==
    AD9833_CTRL_B28 + AD9833_CTRL_RESET
    + (IF status = CS1_SINGLE THEN AD9833_CTRL_SLEEP12 ELSE 0)
    + (IF status \notin {CS1_SINGLE, CS2_SINGLE, CS1_CS2_DOUBLE}
       THEN AD9833_CTRL_SLEEP1 + AD9833_CTRL_SLEEP12 ELSE 0)

\* transmissions i .. i+5 go to chip c alone and are, for the channel
\* configuration cfg: frequency bank select, phase bank select, frequency low,
\* frequency high, phase, waveform and start
ConfigureBlock(i, c, cfg) ==
    /\ \A k \in i..(i + 5) : Target(k) = c
    /\ IsCtrlWord(Word(i)) /\ Held(Word(i))
    /\ HasBit(Word(i), AD9833_CTRL_FSELECT) = (cfg.freqReg = 1)
    /\ IsCtrlWord(Word(i + 1)) /\ Held(Word(i + 1))
    /\ HasBit(Word(i + 1), AD9833_CTRL_PSELECT) = (cfg.phaseReg = 1)
    /\ Word(i + 1) = BitOr(BitClear(Word(i), AD9833_CTRL_PSELECT),
                           IF cfg.phaseReg = 1 THEN AD9833_CTRL_PSELECT ELSE 0)
    /\ Prefix2(Word(i + 2)) = (IF cfg.freqReg = 0 THEN AD9833_CMD_FREQ0REG
                                ELSE AD9833_CMD_FREQ1REG)
    /\ Prefix2(Word(i + 3)) = Prefix2(Word(i + 2))
    /\ Word(i + 4) \div 4096 = (IF cfg.phaseReg = 0 THEN 12 ELSE 14)
    /\ IsCtrlWord(Word(i + 5)) /\ ~Held(Word(i + 5))
    /\ Word(i + 5) = Word(i + 1) - AD9833_CTRL_RESET + WaveBits(cfg.wave)

\* the channels AD9833_Cmd configures under a status, in order
ActiveChannels(status) ==
    IF status = CS1_SINGLE THEN <<CS1>>
    ELSE IF status = CS2_SINGLE THEN <<CS2>>
    ELSE IF status = CS1_CS2_DOUBLE THEN <<CS1, CS2>>
    ELSE <<>>

ChannelConfig(st, c) == IF c = CS1 THEN st.AD_CS1 ELSE st.AD_CS2

(* C6: AD9833_Cmd first transmits the two words of AD9833_Init, then for   *)
(* each active chip, chip 1 before chip 2, frequency bank select, phase    *)
(* bank select, frequency, phase, waveform-and-start; the start word is    *)
(* the last word the chip receives, and no control word with RESET cleared *)
(* reaches a chip before its frequency and phase words.                    *)
C6_CmdOrder ==
    op = "Cmd" =>
        LET act == ActiveChannels(arg.st.status) IN
        /\ Len(trace) = 2 + 6 * Len(act)
        /\ Target(1) = CS1 /\ Word(1) = InitWord1(arg.st.status)
        /\ Target(2) = CS2 /\ Word(2) = InitWord2(arg.st.status)
        /\ \A k \in 1..Len(act) :
               ConfigureBlock(6 * k - 3, act[k], ChannelConfig(arg.st, act[k]))
        /\ \A k \in 1..Len(act) :
               \A i \in 1..Len(trace) :
                   (Reaches(i, act[k]) /\ IsCtrlWord(Word(i)) /\ ~Held(Word(i)))
                       => /\ i = 6 * k + 2
                          /\ \A j \in (i + 1)..Len(trace) : ~Reaches(j, act[k])

C6_Witness ==
    /\ op = "Cmd"
    /\ nOps = 2
    /\ arg.st.status = CS1_CS2_DOUBLE
    /\ arg.st.AD_CS1.wave = TRIANGLE_WAVE
    /\ arg.st.AD_CS2.wave = SQUARE_WAVE
    /\ Len(trace) = 14
    /\ chip_ctrl1 = 8194
    /\ chip_ctrl2 = 8232

(* C7: AD9833_FreqSet on chip 1 or chip 2 with bank 0 or 1 makes exactly   *)
(* two transmissions, both to that chip: the word with the low 14 bits of  *)
(* the tuning value, then the word with its bits 14..27, both with the     *)
(* prefix of the bank (0x4000 for bank 0, 0x8000 for bank 1).              *)
C7_FreqSetTwoWords ==
    (op = "FreqSet" /\ arg.choice \in {CS1, CS2} /\ arg.num \in {0, 1}) =>
        LET prefix == IF arg.num = 0 THEN 16384 ELSE 32768
            raw == FreqDataRawOf[arg.val]
        IN  /\ Len(trace) = 2
            /\ Target(1) = arg.choice
            /\ Target(2) = arg.choice
            /\ Word(1) = prefix + (raw % 16384)
            /\ Word(2) = prefix + ((raw \div 16384) % 16384)

C7_Witness ==
    /\ op = "FreqSet"
    /\ arg.choice = CS2
    /\ arg.num = 1
    /\ arg.val = 1000000
    /\ Len(trace) = 2
    /\ Word(1) = 32768 + 5898
    /\ Word(2) = 32768 + 655

----------------------------------------------------------------------------
(* Exact arithmetic for the frequency claims, independent of MulDivMod *)

\* a * b for 0 <= a, b < 2^30 as <<hi, lo>>, a * b = hi * 2^30 + lo, lo < 2^30
Product(a, b) ==
    LET a0 == a % 32768
        a1 == a \div 32768
        b0 == b % 32768
        b1 == b \div 32768
        t0 == a0 * b0
        t1 == (a1 * b0) + (a0 * b1) + (t0 \div 32768)
        t2 == (a1 * b1) + (t1 \div 32768)
    IN  <<t2, ((t1 % 32768) * 32768) + (t0 % 32768)>>

LessEq(x, y) == x[1] < y[1] \/ (x[1] = y[1] /\ x[2] <= y[2])
Less(x, y) == x[1] < y[1] \/ (x[1] = y[1] /\ x[2] < y[2])

\* the 28-bit value the two recorded frequency words carry
TuningValue == (Payload14(Word(2)) * 16384) + Payload14(Word(1))

\* the recorder holds a frequency write of a whole frequency in [0, 12.5 MHz]
FreqSetInRange ==
    /\ op = "FreqSet"
    /\ Len(trace) = 2
    /\ arg.val >= 0
    /\ arg.val <= 12500000

(* C8 as stated: for a whole frequency f in [0, 12 500 000] Hz the 28-bit  *)
(* value carried by the two words of AD9833_FreqSet is f * 2^28 / 25e6     *)
(* rounded to the nearest whole number, i.e. (2r - 1) * 12.5e6 <=          *)
(* f * 2^28 < (2r + 1) * 12.5e6.                                           *)
C8_TuningValueRounded ==
    FreqSetInRange =>
        LET r == TuningValue
            x == Product(arg.val, 268435456)
        IN  /\ r > 0 => LessEq(Product((2 * r) - 1, 12500000), x)
            /\ Less(x, Product((2 * r) + 1, 12500000))

(* C8 amended: for a whole frequency f in [0, 12 500 000] Hz the 28-bit    *)
(* value carried by the two words of AD9833_FreqSet is f * 2^28 / 25e6     *)
(* truncated toward zero, r * 25e6 <= f * 2^28 < (r + 1) * 25e6; its low   *)
(* 14 bits are in the first word and bits 14..27 in the second, both under *)
(* the prefix of the bank.                                                 *)
C8_TuningValueTruncated ==
    FreqSetInRange =>
        LET r == TuningValue
            x == Product(arg.val, 268435456)
        IN  /\ LessEq(Product(r, 25000000), x)
            /\ Less(x, Product(r + 1, 25000000))
            /\ Prefix2(Word(1)) = (IF arg.num = 0 THEN 16384 ELSE 32768)
            /\ Prefix2(Word(2)) = Prefix2(Word(1))

C8_Witness ==
    /\ FreqSetInRange
    /\ arg.val = 1000000
    /\ TuningValue = 10737418
    /\ Word(1) % 16384 = 5898
    /\ Word(2) % 16384 = 655

(* C9: a call of AD9833_FreqSet with a frequency above 12 500 000 Hz makes *)
(* exactly the transmissions that the call before it made with 12 500 000  *)
(* Hz on the same chip and bank, and a call with a negative frequency      *)
(* exactly those of a call with 0 Hz.                                      *)
C9_ClampedLikeTheLimit ==
    [][ ( /\ op = "FreqSet" /\ op' = "FreqSet"
          /\ arg'.choice = arg.choice /\ arg'.num = arg.num
          /\ \/ arg.val = 12500000 /\ arg'.val > 12500000
             \/ arg.val = 0 /\ arg'.val < 0 )
        => (Len(trace') = 2 /\ trace' = trace) ]_vars

C9_Witness ==
    /\ op = "FreqSet"
    /\ arg.val = 20000000
    /\ arg.num = 0
    /\ Len(trace) = 2
    /\ Word(1) = 16384
    /\ Word(2) = 16384 + 8192

(* C10: of two successive AD9833_FreqSet calls with frequencies f <= g in  *)
(* [0, 12 500 000] Hz the second carries a 28-bit value not below that of  *)
(* the first, and a call with 0 Hz carries 0 in both words.                *)
C10_Monotonic ==
    /\ [][ (FreqSetInRange /\ FreqSetInRange' /\ arg.val <= arg'.val)
           => TuningValue <= TuningValue' ]_vars
    /\ []((FreqSetInRange /\ arg.val = 0)
           => (Payload14(Word(1)) = 0 /\ Payload14(Word(2)) = 0))

C10_Witness ==
    /\ FreqSetInRange
    /\ arg.val = 12500000
    /\ TuningValue = 134217728

----------------------------------------------------------------------------
(* Phase conversion *)

\* the recorder holds a phase write to chip 1 or 2, bank 0 or 1
PhaseSetDone ==
    /\ op = "PhaseSet"
    /\ arg.choice \in {CS1, CS2}
    /\ arg.num \in {0, 1}
    /\ Len(trace) = 1

\* the 12-bit value the recorded phase word carries under the bank's prefix
PhaseWord == Word(1) - (IF arg.num = 0 THEN 49152 ELSE 57344)

(* C11: of two successive AD9833_PhaseSet calls on the same chip and bank  *)
(* whose angles differ by a whole number of turns (360 degrees), negative  *)
(* angles included, the second transmits the same word as the first.       *)
C11_PhasePeriodic ==
    [][ ( /\ PhaseSetDone /\ PhaseSetDone'
          /\ arg'.choice = arg.choice /\ arg'.num = arg.num
          /\ (arg'.val - arg.val) % 360 = 0 )
        => trace' = trace ]_vars

(* C12: AD9833_PhaseSet gives phase word 0 for 0 degrees, 2048 for 180     *)
(* degrees, and for every whole angle a in [0, 360) a word p in [0, 4095], *)
(* namely the one with p * 360 <= a * 4096 < (p + 1) * 360.                *)
C12_PhaseAnchors ==
    PhaseSetDone =>
        /\ arg.val = 0 => PhaseWord = 0
        /\ arg.val = 180 => PhaseWord = 2048
        /\ (arg.val >= 0 /\ arg.val < 360) =>
               /\ PhaseWord \in 0..4095
               /\ PhaseWord * 360 <= arg.val * 4096
               /\ arg.val * 4096 < (PhaseWord + 1) * 360

C12_Witness ==
    /\ PhaseSetDone
    /\ arg.val = 180
    /\ arg.num = 0
    /\ Word(1) = 49152 + 2048

----------------------------------------------------------------------------
(* AD9833_Init and AD9833_SetWaveformAndStart *)

ValidStatuses == {CS1_SINGLE, CS2_SINGLE, CS1_CS2_DOUBLE}
ValidWaves == {SINE_WAVE, TRIANGLE_WAVE, SQUARE_WAVE}

(* C13: after AD9833_Init with a valid status, whatever the shadows were,  *)
(* each shadow is exactly B28 + RESET, plus SLEEP12 on the shadow of the   *)
(* chip not in use: chip 2 under CS1_SINGLE, chip 1 under CS2_SINGLE,      *)
(* neither under CS1_CS2_DOUBLE.                                           *)
C13_InitShadows ==
    (op = "Init" /\ arg.num \in ValidStatuses) =>
        /\ s_control_reg_cs1 =
               AD9833_CTRL_B28 + AD9833_CTRL_RESET
               + (IF arg.num = CS2_SINGLE THEN AD9833_CTRL_SLEEP12 ELSE 0)
        /\ s_control_reg_cs2 =
               AD9833_CTRL_B28 + AD9833_CTRL_RESET
               + (IF arg.num = CS1_SINGLE THEN AD9833_CTRL_SLEEP12 ELSE 0)

C13_Witness ==
    /\ op = "Init"
    /\ arg.num = CS1_SINGLE
    /\ nOps = 2
    /\ s_control_reg_cs1 = 8448
    /\ s_control_reg_cs2 = 8512

(* C14: after AD9833_Init with a status that is none of the three, both    *)
(* shadows are exactly B28 + RESET + SLEEP1 + SLEEP12, and the call has    *)
(* transmitted that word to chip 1 and then to chip 2.                     *)
C14_InitUnknownStatus ==
    (op = "Init" /\ arg.num \notin ValidStatuses) =>
        LET w == AD9833_CTRL_B28 + AD9833_CTRL_RESET
                 + AD9833_CTRL_SLEEP1 + AD9833_CTRL_SLEEP12
        IN  /\ s_control_reg_cs1 = w
            /\ s_control_reg_cs2 = w
            /\ Len(trace) = 2
            /\ Target(1) = CS1 /\ Word(1) = w
            /\ Target(2) = CS2 /\ Word(2) = w

C14_Witness ==
    /\ op = "Init"
    /\ arg.num = 3
    /\ nOps = 2
    /\ s_control_reg_cs1 = 8640
    /\ s_control_reg_cs2 = 8640
    /\ Len(trace) = 2

\* the shadow of chip c (1 or 2)
ShadowOf(c) == IF c = CS1 THEN s_control_reg_cs1 ELSE s_control_reg_cs2

\* MODE, OPBITEN and DIV2 together
WaveMask == AD9833_CTRL_MODE + AD9833_CTRL_OPBITEN + AD9833_CTRL_DIV2

\* the recorder holds a SetWaveformAndStart of chip 1 or 2 with a waveform
StartDone ==
    /\ op = "SetWaveformAndStart"
    /\ arg.choice \in {CS1, CS2}
    /\ arg.val \in ValidWaves

(* C15: after AD9833_SetWaveformAndStart(chip, w), chip 1 or 2 and w one   *)
(* of the three waveforms, the bits MODE, OPBITEN, DIV2 of the chip's      *)
(* shadow are exactly those of w (none; MODE; OPBITEN and DIV2), RESET is  *)
(* clear, and the one word transmitted, to that chip, is the new shadow;   *)
(* the call changes the shadow it finds in these four bits only, so no bit *)
(* of an earlier waveform stays; and the three waveforms give three        *)
(* different bit combinations.                                             *)
C15_WaveformBits ==
    /\ [](StartDone =>
            /\ BitAnd(ShadowOf(arg.choice), WaveMask) = WaveBits(arg.val)
            /\ ~Held(ShadowOf(arg.choice))
            /\ Len(trace) = 1
            /\ Target(1) = arg.choice
            /\ Word(1) = ShadowOf(arg.choice))
    /\ [][StartDone' =>
            IF arg'.choice = CS1
            THEN /\ s_control_reg_cs1' =
                        BitClear(s_control_reg_cs1, WaveMask + AD9833_CTRL_RESET)
                        + WaveBits(arg'.val)
                 /\ s_control_reg_cs2' = s_control_reg_cs2
            ELSE /\ s_control_reg_cs2' =
                        BitClear(s_control_reg_cs2, WaveMask + AD9833_CTRL_RESET)
                        + WaveBits(arg'.val)
                 /\ s_control_reg_cs1' = s_control_reg_cs1]_vars
    /\ [](\A w1, w2 \in ValidWaves :
            w1 # w2 =>
                BitAnd(AD9833_SetWaveformAndStart(Entry, CS1, w1).cs1, WaveMask)
                # BitAnd(AD9833_SetWaveformAndStart(Entry, CS1, w2).cs1, WaveMask))

C15_Witness ==
    /\ StartDone
    /\ nOps = 2
    /\ arg.choice = CS1
    /\ arg.val = TRIANGLE_WAVE
    /\ s_control_reg_cs1 = 8192 + 64 + 2
    /\ Word(1) = 8258

----------------------------------------------------------------------------
(* Invalid selectors *)

ChipOps ==
    {"SelectFreqReg", "SelectPhaseReg", "FreqSet", "PhaseSet",
     "SetWaveformAndStart", "Reset", "Sleep"}

\* the chip-scoped operations that work on the shadow of the chip
ShadowOps == {"SelectFreqReg", "SelectPhaseReg", "SetWaveformAndStart", "Reset", "Sleep"}

BankOps == {"SelectFreqReg", "SelectPhaseReg", "FreqSet", "PhaseSet"}

\* the step is a call that transmits nothing and leaves both shadows alone
Skipped ==
    /\ trace' = <<>>
    /\ s_control_reg_cs1' = s_control_reg_cs1
    /\ s_control_reg_cs2' = s_control_reg_cs2
    /\ chip_ctrl1' = chip_ctrl1
    /\ chip_ctrl2' = chip_ctrl2

(* C16 as stated: a call of a chip-scoped operation with a chip value      *)
(* other than CS1 and CS2 transmits nothing and leaves both shadows        *)
(* unchanged.                                                              *)
C16_UnknownChipSkipped ==
    [][ (op' \in ChipOps /\ arg'.choice \notin {CS1, CS2}) => Skipped ]_vars

(* C16 amended: a call of a chip-scoped operation with a chip value that   *)
(* is none of CS1, CS2, CS_BOTH transmits nothing and leaves both shadows  *)
(* unchanged, and so does a call of SelectFreqReg, SelectPhaseReg,         *)
(* SetWaveformAndStart, Reset or Sleep with CS_BOTH; FreqSet and PhaseSet  *)
(* with CS_BOTH and bank 0 or 1 transmit their words to both chips and     *)
(* leave both shadows unchanged.                                           *)
C16_UnknownChipSkippedBroadcastSent ==
    [][ /\ ( /\ op' \in ChipOps
             /\ \/ arg'.choice \notin {CS1, CS2, CS_BOTH}
                \/ arg'.choice = CS_BOTH /\ op' \in ShadowOps )
           => Skipped
        /\ ( /\ op' \in {"FreqSet", "PhaseSet"}
             /\ arg'.choice = CS_BOTH
             /\ arg'.num \in {0, 1} )
           => /\ Len(trace') = (IF op' = "FreqSet" THEN 2 ELSE 1)
              /\ \A i \in 1..Len(trace') : trace'[i].target = CS_BOTH
              /\ s_control_reg_cs1' = s_control_reg_cs1
              /\ s_control_reg_cs2' = s_control_reg_cs2 ]_vars

C16_Witness ==
    /\ op = "Sleep"
    /\ arg.choice = 0
    /\ arg.val = 1
    /\ nOps = 2
    /\ trace = <<>>
    /\ s_control_reg_cs1 = 8192
    /\ chip_ctrl1 = 8192

(* C17: a call of SelectFreqReg, SelectPhaseReg, FreqSet or PhaseSet with  *)
(* a bank number other than 0 and 1 transmits nothing and leaves both      *)
(* shadows unchanged.                                                      *)
C17_UnknownBankSkipped ==
    [][ (op' \in BankOps /\ arg'.num \notin {0, 1}) => Skipped ]_vars

(* C18: a call of SetWaveformAndStart with a waveform that is none of      *)
(* SINE_WAVE, TRIANGLE_WAVE, SQUARE_WAVE transmits nothing and leaves the  *)
(* shadows, RESET and waveform bits included, unchanged.                   *)
C18_UnknownWaveSkipped ==
    [][ (op' = "SetWaveformAndStart" /\ arg'.val \notin ValidWaves) => Skipped ]_vars

(* C19: AD9833_Cmd and AD9833_Cmd_Sync called with a null pointer return   *)
(* normally, transmit nothing and leave both shadows unchanged.            *)
C19_NullSpecSkipped ==
    [][ (op' \in {"Cmd_NULL", "Cmd_Sync_NULL", "HardFault"})
        => (op' # "HardFault" /\ Skipped) ]_vars

----------------------------------------------------------------------------
(* Transport failure *)

\* the recorded call made a bus attempt that HAL_SPI_Transmit reported failed
TransportFailed ==
    /\ op \in {"Write_HAL", "Reset_HAL"}
    /\ \E i \in 1..Len(trace) : trace[i].hal # "HAL_OK"

(* C20: when HAL_SPI_Transmit reports a failure, the caller of             *)
(* AD9833_Write, and of the driver operation that called it, gets back a   *)
(* value that differs from the one it gets when the word was sent.         *)
C20_FailureSurfaced ==
    TransportFailed =>
        arg.val2 # (IF op = "Write_HAL" THEN Returned_Write_HAL("HAL_OK")
                    ELSE Returned_Reset_HAL("HAL_OK"))

\* the control register of chip c as the chip itself holds it
ChipOf(c) == IF c = CS1 THEN chip_ctrl1 ELSE chip_ctrl2

(* C21: a failed transfer changes neither the shadow update nor the number *)
(* of transfers: AD9833_Write and AD9833_Reset hand each word to           *)
(* HAL_SPI_Transmit exactly once, whatever it reports; after AD9833_Reset  *)
(* the shadow has RESET as asked and is the word handed over, whether the  *)
(* transfer succeeded or not; so after a failure the shadow may differ     *)
(* from the control register in the chip.                                  *)
C21_OneAttemptShadowKept ==
    op \in {"Write_HAL", "Reset_HAL"} =>
        /\ Len(trace) = 1
        /\ Target(1) = arg.choice
        /\ op = "Write_HAL" => Word(1) = arg.val
        /\ op = "Reset_HAL" =>
            /\ Held(ShadowOf(arg.choice)) = (arg.val # 0)
            /\ Word(1) = ShadowOf(arg.choice)
            /\ trace[1].sh1 = s_control_reg_cs1
            /\ trace[1].sh2 = s_control_reg_cs2
            /\ trace[1].hal = "HAL_OK" => ChipOf(arg.choice) = ShadowOf(arg.choice)

\* a refused AD9833_Reset leaves the chip with an older control word
C21_Witness ==
    /\ op = "Reset_HAL"
    /\ trace[1].hal # "HAL_OK"
    /\ ChipOf(arg.choice) # NoWord
    /\ ChipOf(arg.choice) # ShadowOf(arg.choice)
    /\ Held(ShadowOf(arg.choice)) = (arg.val # 0)

\* bit 15 down to bit 0 of a 16-bit word
Bits16(w) == [i \in 1..16 |-> (w \div (2 ^ (16 - i))) % 2]

\* positions of the capture at which SCLK falls
FallingEdges == {i \in 2..Len(trace) : trace[i - 1].sclk = 1 /\ trace[i].sclk = 0}

\* the data line of the capture w at the falling edges of SCLK at which the
\* chip-select `cs' is low, in the order of the edges
RECURSIVE SampledUpTo(_, _, _)
SampledUpTo(w, cs, n) ==
    IF n < 2 THEN <<>>
    ELSE IF w[n - 1].sclk = 1 /\ w[n].sclk = 0 /\ w[n][cs] = 0
         THEN Append(SampledUpTo(w, cs, n - 1), w[n].mosi)
         ELSE SampledUpTo(w, cs, n - 1)

Sampled(cs) == SampledUpTo(trace, cs, Len(trace))

\* number of times the line `cs' goes low in the capture
Selections(cs) ==
    Cardinality({i \in 2..Len(trace) : trace[i - 1][cs] = 1 /\ trace[i][cs] = 0})

SelectedPins(choice) ==
    IF choice = CS1 THEN {"cs1"} ELSE IF choice = CS2 THEN {"cs2"}
    ELSE IF choice = CS_BOTH THEN {"cs1", "cs2"} ELSE {}

(* C22: every transmission of the bit-banged AD9833_Write to chip 1, chip  *)
(* 2 or both clocks out exactly 16 bits, bit 15 first down to bit 0; the   *)
(* chip-select of the target is low before the first bit and high after    *)
(* the last, the other chip-select stays high; a broadcast holds both low  *)
(* around one single 16-bit transfer and raises both afterwards.           *)
C22_SixteenBitsFramed ==
    (op = "Write_Pins" /\ arg.choice \in {CS1, CS2, CS_BOTH}) =>
        /\ Cardinality(FallingEdges) = 16
        /\ \A cs \in SelectedPins(arg.choice) :
            /\ Sampled(cs) = Bits16(arg.val)
            /\ Selections(cs) = 1
            /\ \A i \in 2..Len(trace) :
                    trace[i].sclk # trace[i - 1].sclk => trace[i][cs] = 0
        /\ \A cs \in {"cs1", "cs2"} \ SelectedPins(arg.choice) :
                \A i \in 1..Len(trace) : trace[i][cs] = 1
        /\ trace[1].cs1 = 1 /\ trace[1].cs2 = 1
        /\ trace[Len(trace)].cs1 = 1 /\ trace[Len(trace)].cs2 = 1

\* a broadcast of a word with ones and zeros mixed has been captured
C22_Witness ==
    /\ op = "Write_Pins"
    /\ arg.choice = CS_BOTH
    /\ arg.val = 43690
    /\ Sampled("cs1") = <<1, 0, 1, 0, 1, 0, 1, 0, 1, 0, 1, 0, 1, 0, 1, 0>>
    /\ Sampled("cs2") = Sampled("cs1")

\* the bits the chip on chip-select `cs' is given by the i-th AD9833_Write
\* of the recorder
Delivered(i, cs) ==
    IF trace[i].variant = "Soft"
    THEN SampledUpTo(trace[i].pins, cs, Len(trace[i].pins))
    ELSE IF cs \in trace[i].sel THEN trace[i].bits ELSE <<>>

(* C23: the transports over the SPI peripheral and the bit-banged one are  *)
(* interchangeable: for chip 1, chip 2 and broadcast and every 16-bit      *)
(* word, each AD9833_Write gives the 16 bits of the word, highest first,   *)
(* to the chips of the target and nothing to the other.                    *)
C23_Interchangeable ==
    (op = "Write_Each" /\ arg.choice \in {CS1, CS2, CS_BOTH}) =>
        \A i \in 1..Len(trace) : \A cs \in {"cs1", "cs2"} :
            Delivered(i, cs) = IF cs \in SelectedPins(arg.choice)
                               THEN Bits16(arg.val) ELSE <<>>

\* the 14 bits AD9833_FreqSet puts into its i-th word
Fragment(i) ==
    IF i = 1 THEN FreqDataRawOf[arg.val] % 16384
    ELSE (FreqDataRawOf[arg.val] \div 16384) % 16384

(* C24: every word AD9833_FreqSet transmits for bank 0 or 1 has bits 15    *)
(* and 14 equal to 01 for bank 0 and 10 for bank 1 and its low 14 bits     *)
(* equal to the 14-bit fragment of the tuning value; every word            *)
(* AD9833_PhaseSet transmits has bits 15..13 equal to 110 for bank 0 and   *)
(* 111 for bank 1, bit 12 clear and its low 12 bits equal to the 12-bit    *)
(* phase value of the angle.                                               *)
C24_WordLayout ==
    /\ (op = "FreqSet" /\ arg.choice \in {CS1, CS2} /\ arg.num \in {0, 1}) =>
            /\ trace # <<>>
            /\ \A i \in 1..Len(trace) :
                /\ HasBit(Word(i), 32768) = (arg.num = 1)
                /\ HasBit(Word(i), 16384) = (arg.num = 0)
                /\ Fragment(i) < 16384
                /\ BitAnd(Word(i), 16383) = Fragment(i)
    /\ (op = "PhaseSet" /\ arg.choice \in {CS1, CS2} /\ arg.num \in {0, 1}) =>
            /\ trace # <<>>
            /\ \A i \in 1..Len(trace) :
                /\ HasBit(Word(i), 32768)
                /\ HasBit(Word(i), 16384)
                /\ HasBit(Word(i), 8192) = (arg.num = 1)
                /\ ~HasBit(Word(i), 4096)
                /\ BitAnd(Word(i), 4095) = ((arg.val % 360) * 4096) \div 360

\* a phase word of bank 1 has been transmitted to chip 2
C24_Witness ==
    /\ op = "PhaseSet"
    /\ arg.choice = CS2
    /\ arg.num = 1
    /\ arg.val = 540
    /\ Word(1) = 57344 + 2048

\* the shadow of chip c after the step
ShadowAfter(c) == IF c = CS1 THEN s_control_reg_cs1' ELSE s_control_reg_cs2'

\* the step leaves the shadow of the chip other than c alone
OtherShadowKept(c) ==
    IF c = CS1 THEN s_control_reg_cs2' = s_control_reg_cs2
    ELSE s_control_reg_cs1' = s_control_reg_cs1

\* x with the bits of mask taken out
Without(x, mask) == x - BitAnd(x, mask)

\* the step transmits one word, the new shadow of chip c, to chip c
OneWordSent(c) ==
    /\ Len(trace') = 1
    /\ trace'[1].target = c
    /\ trace'[1].word = ShadowAfter(c)

(* C25: AD9833_SelectFreqReg(chip, b) and AD9833_SelectPhaseReg(chip, b),  *)
(* chip 1 or 2 and b 0 or 1, make FSELECT (resp. PSELECT) of the chip's    *)
(* shadow equal to b and transmit exactly one word, the new shadow, to     *)
(* that chip; no other bit changes, so a frequency-bank selection never    *)
(* changes PSELECT and a phase-bank selection never changes FSELECT.       *)
C25_BankSelect ==
    [][(op' \in {"SelectFreqReg", "SelectPhaseReg"}
            /\ arg'.choice \in {CS1, CS2} /\ arg'.num \in {0, 1}) =>
        LET c == arg'.choice
            bit == IF op' = "SelectFreqReg" THEN AD9833_CTRL_FSELECT
                   ELSE AD9833_CTRL_PSELECT
        IN  /\ HasBit(ShadowAfter(c), bit) = (arg'.num = 1)
            /\ Without(ShadowAfter(c), bit) = Without(ShadowOf(c), bit)
            /\ OtherShadowKept(c)
            /\ OneWordSent(c)]_vars

\* phase bank 1 selected on a chip whose frequency bank 1 was selected before
C25_Witness ==
    /\ op = "SelectPhaseReg"
    /\ arg.choice \in {CS1, CS2}
    /\ arg.num = 1
    /\ HasBit(ShadowOf(arg.choice), AD9833_CTRL_PSELECT)
    /\ HasBit(ShadowOf(arg.choice), AD9833_CTRL_FSELECT)
    /\ Word(1) = ShadowOf(arg.choice)

(* C26: AD9833_Reset(chip, active), chip 1 or 2, makes RESET of the chip's *)
(* shadow equal to (active # 0); AD9833_Sleep(chip, s1, s12) makes SLEEP1  *)
(* equal to (s1 # 0) and SLEEP12 equal to (s12 # 0), whatever they were    *)
(* before; each call changes no other bit and transmits exactly one word,  *)
(* the new shadow, to that chip.                                           *)
C26_ResetSleep ==
    [][(op' \in {"Reset", "Sleep"} /\ arg'.choice \in {CS1, CS2}) =>
        LET c == arg'.choice
            bits == IF op' = "Reset" THEN AD9833_CTRL_RESET
                    ELSE AD9833_CTRL_SLEEP1 + AD9833_CTRL_SLEEP12
        IN  /\ op' = "Reset" =>
                    HasBit(ShadowAfter(c), AD9833_CTRL_RESET) = (arg'.val # 0)
            /\ op' = "Sleep" =>
                    /\ HasBit(ShadowAfter(c), AD9833_CTRL_SLEEP1) = (arg'.val # 0)
                    /\ HasBit(ShadowAfter(c), AD9833_CTRL_SLEEP12) = (arg'.val2 # 0)
            /\ Without(ShadowAfter(c), bits) = Without(ShadowOf(c), bits)
            /\ OtherShadowKept(c)
            /\ OneWordSent(c)]_vars

\* AD9833_Sleep has set SLEEP1 alone on a chip released from reset before
C26_Witness ==
    /\ op = "Sleep"
    /\ arg.choice \in {CS1, CS2}
    /\ arg.val = 1
    /\ arg.val2 = 0
    /\ ~Held(ShadowOf(arg.choice))
    /\ HasBit(ShadowOf(arg.choice), AD9833_CTRL_SLEEP1)
    /\ ~HasBit(ShadowOf(arg.choice), AD9833_CTRL_SLEEP12)
    /\ Word(1) = ShadowOf(arg.choice)

\* after both calls: the bank selected by the interrupt is not in the shadow
LostSelect == HasBit(ShadowOf(arg.choice), AD9833_CTRL_FSELECT) # (arg.num = 1)

\* after both calls: the reset state asked by the main program is not in
\* the shadow
LostReset == Held(ShadowOf(arg.choice)) # (arg.val # 0)

(* C27: the driver is not safe for unsynchronised calls on one chip. When  *)
(* AD9833_Reset and AD9833_SelectFreqReg on the same chip interleave at    *)
(* the steps shadow read, shadow write, transmit, then after both have     *)
(* returned the update of one is lost exactly when it changed its bit and  *)
(* fell between the read and the write of the other, and the last control  *)
(* word the chip received differs from the shadow exactly when the last    *)
(* AD9833_Write was given a value that was no longer the shadow; both      *)
(* happen (C27_Witness, C27_WitnessStaleWord).                             *)
C27_RaceOutcome ==
    op = "Raced" =>
        /\ Len(trace) = 2
        /\ LostSelect <=>
                /\ arg.main.stale
                /\ HasBit(arg.start, AD9833_CTRL_FSELECT) # (arg.num = 1)
        /\ LostReset <=>
                /\ arg.irq.stale
                /\ Held(arg.start) # (arg.val # 0)
        /\ (ChipOf(arg.choice) # ShadowOf(arg.choice)) <=>
                Word(2) # (IF arg.choice = CS1 THEN trace[2].sh1 ELSE trace[2].sh2)

\* both calls have returned and the bit update of one of them is lost,
\* with the shadow read again for every AD9833_Write
C27_Witness ==
    /\ op = "Raced"
    /\ LostSelect \/ LostReset
    /\ ChipOf(arg.choice) = ShadowOf(arg.choice)

\* both calls have returned, no update is lost and the last control word
\* the chip received is not the shadow
C27_WitnessStaleWord ==
    /\ op = "Raced"
    /\ ~LostSelect /\ ~LostReset
    /\ ChipOf(arg.choice) # ShadowOf(arg.choice)

\* a control word of the AD9833: bits 15 and 14 clear, B28 set, HLB clear,
\* and none of the bits 9, 4, 2 and 0, which the chip does not define
WellFormed(w) ==
    /\ w >= 0
    /\ w < 16384
    /\ HasBit(w, AD9833_CTRL_B28)
    /\ ~HasBit(w, AD9833_CTRL_HLB)
    /\ ~HasBit(w, 512 + 16 + 4 + 1)

(* C28: in every reachable state both shadows are well-formed control      *)
(* words, and so is every control word transmitted, to one chip or to      *)
(* both: bits 15 and 14 are 0, B28 is set, HLB is clear and none of the    *)
(* bits 9, 4, 2, 0 is set; the operations that only change the control     *)
(* register transmit nothing but such words.                               *)
C28_WellFormed ==
    /\ WellFormed(s_control_reg_cs1)
    /\ WellFormed(s_control_reg_cs2)
    /\ \A i \in 1..Len(trace) :
        /\ IsCtrlWord(Word(i)) => WellFormed(Word(i))
        /\ op \in ShadowOps \cup {"Init"} => WellFormed(Word(i))
    /\ chip_ctrl1 # NoWord => WellFormed(chip_ctrl1)
    /\ chip_ctrl2 # NoWord => WellFormed(chip_ctrl2)

\* a broadcast start word has gone out and chip 1 runs a square wave
C28_Witness ==
    /\ \E i \in 1..Len(trace) :
            Target(i) = CS_BOTH /\ IsCtrlWord(Word(i)) /\ ~Held(Word(i))
    /\ HasBit(s_control_reg_cs1, AD9833_CTRL_OPBITEN)
    /\ HasBit(s_control_reg_cs1, AD9833_CTRL_DIV2)
    /\ WellFormed(s_control_reg_cs1)

(* C29: AD9833_Init transmits exactly two words and no broadcast: first    *)
(* the new shadow of chip 1 to chip 1, then the new shadow of chip 2 to    *)
(* chip 2, both after the two shadows have been set.                       *)
C29_InitTwoWords ==
    op = "Init" =>
        /\ Len(trace) = 2
        /\ \A i \in 1..Len(trace) : Target(i) # CS_BOTH
        /\ Target(1) = CS1
        /\ Word(1) = s_control_reg_cs1
        /\ Target(2) = CS2
        /\ Word(2) = s_control_reg_cs2
        /\ \A i \in 1..Len(trace) :
            /\ trace[i].sh1 = s_control_reg_cs1
            /\ trace[i].sh2 = s_control_reg_cs2
        /\ chip_ctrl1 = s_control_reg_cs1
        /\ chip_ctrl2 = s_control_reg_cs2

\* AD9833_Init(CS2_SINGLE) as the second operation: two different words
C29_Witness ==
    /\ op = "Init"
    /\ arg.num = CS2_SINGLE
    /\ nOps = 2
    /\ Len(trace) = 2
    /\ Word(1) = 8512
    /\ Word(2) = 8448

\* chips in use under a working status
ActiveSet(status) ==
    IF status = CS1_SINGLE THEN {CS1}
    ELSE IF status = CS2_SINGLE THEN {CS2}
    ELSE IF status = CS1_CS2_DOUBLE THEN {CS1, CS2}
    ELSE {}

\* positions of the recorder that reach chip c
ReachingChip(c) == {i \in 1..Len(trace) : Reaches(i, c)}

(* C30: AD9833_Cmd with any working status and banks 0 or 1 returns, after *)
(* a fixed number of transmissions; at return the last control word a chip *)
(* received has RESET clear exactly if the chip is in use under the        *)
(* status; under a single-chip status the chip not in use receives exactly *)
(* one word, the word of AD9833_Init with RESET and SLEEP12 set; under a   *)
(* status that is none of the three only the two words of AD9833_Init are  *)
(* transmitted and neither chip is started.                                *)
C30_CmdStartsActiveOnly ==
    (op = "Cmd"
        /\ arg.st.AD_CS1.freqReg \in {0, 1} /\ arg.st.AD_CS1.phaseReg \in {0, 1}
        /\ arg.st.AD_CS2.freqReg \in {0, 1} /\ arg.st.AD_CS2.phaseReg \in {0, 1}) =>
        LET status == arg.st.status IN
        /\ Len(trace) = 2 + 6 * Cardinality(ActiveSet(status))
        /\ \A c \in {CS1, CS2} :
            /\ ChipOf(c) # NoWord
            /\ ~Held(ChipOf(c)) <=> c \in ActiveSet(status)
        /\ status \in {CS1_SINGLE, CS2_SINGLE} =>
                \A c \in {CS1, CS2} \ ActiveSet(status) :
                    /\ Cardinality(ReachingChip(c)) = 1
                    /\ \A i \in ReachingChip(c) :
                        /\ Word(i) = AD9833_CTRL_B28 + AD9833_CTRL_RESET
                                     + AD9833_CTRL_SLEEP12
                        /\ Target(i) = c
        /\ status \notin {CS1_SINGLE, CS2_SINGLE, CS1_CS2_DOUBLE} =>
                /\ Len(trace) = 2
                /\ Target(1) = CS1 /\ Target(2) = CS2
                /\ Held(Word(1)) /\ Held(Word(2))
                /\ Held(s_control_reg_cs1) /\ Held(s_control_reg_cs2)

\* AD9833_Cmd for chip 2 alone, as the second operation of the run
C30_Witness ==
    /\ op = "Cmd"
    /\ arg.st.status = CS2_SINGLE
    /\ nOps = 2
    /\ Held(chip_ctrl1)
    /\ HasBit(chip_ctrl1, AD9833_CTRL_SLEEP12)
    /\ chip_ctrl2 # NoWord
    /\ ~Held(chip_ctrl2)
    /\ Cardinality(ReachingChip(CS1)) = 1

\* AD9833_Cmd with a status that is none of the three has returned
C30_WitnessUnknownStatus ==
    /\ op = "Cmd"
    /\ arg.st.status = 3
    /\ Len(trace) = 2
    /\ Held(chip_ctrl1)
    /\ Held(chip_ctrl2)

\* the driver and the chips at power-up
PowerUp == Machine(ShadowInit, ShadowInit, NoWord, NoWord)

\* targets and words of a recorder, in order
Emitted(tr) == [i \in 1..Len(tr) |-> <<tr[i].target, tr[i].word>>]

(* C31: the sequence of words AD9833_Cmd_Sync transmits depends on the     *)
(* structure passed only: from whatever state the driver is in, the call   *)
(* transmits the same targets and words as the same call made at power-up. *)
C31_SyncTraceOfSpecOnly ==
    op = "Cmd_Sync" =>
        \E u1 \in PhaseCast(arg.st.AD_CS1.phase), u2 \in PhaseCast(arg.st.AD_CS2.phase) :
            Emitted(trace) = Emitted(AD9833_Cmd_Sync(PowerUp, arg.st, u1, u2).tr)

(* C32: a AD9833_SelectFreqReg, AD9833_SelectPhaseReg or AD9833_Sleep call *)
(* on chip 1 or 2 that follows AD9833_Cmd_Sync leaves the chip running     *)
(* with its waveform: the control word it transmits has RESET clear and    *)
(* the waveform bits of the last broadcast of AD9833_Cmd_Sync.             *)
C32_RunningAfterSync ==
    [][(op = "Cmd_Sync" /\ op' \in {"SelectFreqReg", "SelectPhaseReg", "Sleep"}) =>
        /\ Len(trace') = 1
        /\ ~Held(trace'[1].word)
        /\ BitAnd(trace'[1].word, WaveMask) = BitAnd(Word(Len(trace)), WaveMask)]_vars

\* the bits of the control register an operation is about
OwnBits(name) ==
    IF name = "SelectFreqReg" THEN AD9833_CTRL_FSELECT
    ELSE IF name = "SelectPhaseReg" THEN AD9833_CTRL_PSELECT
    ELSE IF name = "SetWaveformAndStart" THEN WaveMask + AD9833_CTRL_RESET
    ELSE IF name = "Reset" THEN AD9833_CTRL_RESET
    ELSE AD9833_CTRL_SLEEP1 + AD9833_CTRL_SLEEP12

(* C33: AD9833_SelectFreqReg, AD9833_SelectPhaseReg,                       *)
(* AD9833_SetWaveformAndStart, AD9833_Reset and AD9833_Sleep on chip 1 or  *)
(* 2, whatever their other arguments, leave the shadow of the other chip   *)
(* unchanged, transmit nothing to the other chip, and change in the shadow *)
(* of their chip only their own bits: FSELECT; PSELECT; MODE, OPBITEN,     *)
(* DIV2 and RESET; RESET; SLEEP1 and SLEEP12.                              *)
C33_OwnBitsOnly ==
    [][(op' \in ShadowOps /\ arg'.choice \in {CS1, CS2}) =>
        LET c == arg'.choice IN
        /\ OtherShadowKept(c)
        /\ \A i \in 1..Len(trace') : trace'[i].target = c
        /\ IF c = CS1 THEN chip_ctrl2' = chip_ctrl2 ELSE chip_ctrl1' = chip_ctrl1
        /\ Without(ShadowAfter(c), OwnBits(op')) = Without(ShadowOf(c), OwnBits(op'))]_vars

\* a chip whose DAC AD9833_Init had powered down has been started and is
\* still powered down
C33_Witness ==
    /\ op = "SetWaveformAndStart"
    /\ arg.choice \in {CS1, CS2}
    /\ arg.val = SQUARE_WAVE
    /\ ~Held(ShadowOf(arg.choice))
    /\ HasBit(ShadowOf(arg.choice), AD9833_CTRL_SLEEP12)
    /\ HasBit(ShadowOf(arg.choice), AD9833_CTRL_OPBITEN)
    /\ Word(1) = ShadowOf(arg.choice)

(* C34: AD9833_FreqSet and AD9833_PhaseSet never change a shadow and never *)
(* transmit a control word: over every call, whatever its arguments, both  *)
(* shadows and the control registers of both chips are as before, and      *)
(* every word transmitted has bits 15 and 14 other than 00.                *)
C34_NoControlWord ==
    [][op' \in {"FreqSet", "PhaseSet"} =>
        /\ s_control_reg_cs1' = s_control_reg_cs1
        /\ s_control_reg_cs2' = s_control_reg_cs2
        /\ chip_ctrl1' = chip_ctrl1
        /\ chip_ctrl2' = chip_ctrl2
        /\ \A i \in 1..Len(trace') :
            /\ trace'[i].word >= 16384
            /\ trace'[i].sh1 = s_control_reg_cs1
            /\ trace'[i].sh2 = s_control_reg_cs2]_vars

\* AD9833_FreqSet on a chip that an earlier operation had started
C34_Witness ==
    /\ op = "FreqSet"
    /\ arg.choice \in {CS1, CS2}
    /\ Len(trace) = 2
    /\ ChipOf(arg.choice) # NoWord
    /\ ~Held(ShadowOf(arg.choice))
    /\ ChipOf(arg.choice) = ShadowOf(arg.choice)

\* MODE, OPBITEN and DIV2 of w form one of the three combinations of a
\* waveform
LegalWaveBits(w) ==
    /\ ~(HasBit(w, AD9833_CTRL_MODE) /\ HasBit(w, AD9833_CTRL_OPBITEN))
    /\ HasBit(w, AD9833_CTRL_DIV2) <=> HasBit(w, AD9833_CTRL_OPBITEN)

(* C35: in every reachable state the waveform bits of each shadow form one *)
(* of the three legal combinations: MODE and OPBITEN are never both set,   *)
(* and DIV2 is set exactly if OPBITEN is.                                  *)
C35_LegalWaveBits ==
    /\ LegalWaveBits(s_control_reg_cs1)
    /\ LegalWaveBits(s_control_reg_cs2)

\* a square wave has been started on one chip while the other runs a triangle
C35_Witness ==
    /\ op = "SetWaveformAndStart"
    /\ arg.choice \in {CS1, CS2}
    /\ arg.val = SQUARE_WAVE
    /\ nOps = 2
    /\ HasBit(ShadowOf(arg.choice), AD9833_CTRL_OPBITEN)
    /\ HasBit(ShadowOf(arg.choice), AD9833_CTRL_DIV2)
    /\ ~HasBit(ShadowOf(arg.choice), AD9833_CTRL_MODE)
    /\ HasBit(ShadowOf(IF arg.choice = CS1 THEN CS2 ELSE CS1), AD9833_CTRL_MODE)

(* C36: AD9833_Init overwrites what was before: the two shadows and the    *)
(* two words transmitted after AD9833_Init(status) depend on status only,  *)
(* so they are those of AD9833_Init(status) at power-up, whatever          *)
(* operations came before, the same AD9833_Init included.                  *)
C36_InitOverwrites ==
    op = "Init" =>
        LET ref == AD9833_Init(PowerUp, arg.num) IN
        /\ s_control_reg_cs1 = ref.cs1
        /\ s_control_reg_cs2 = ref.cs2
        /\ Emitted(trace) = Emitted(ref.tr)
        /\ chip_ctrl1 = ref.chip1
        /\ chip_ctrl2 = ref.chip2

\* AD9833_Init(CS1_CS2_DOUBLE) as the second operation of the run
C36_Witness ==
    /\ op = "Init"
    /\ arg.num = CS1_CS2_DOUBLE
    /\ nOps = 2
    /\ Len(trace) = 2
    /\ s_control_reg_cs1 = 8448
    /\ s_control_reg_cs2 = 8448

====
